---- MODULE Spec2Model ----
(***************************************************************************)
(* Model of the DOM-observation and injection engine of the review-reply   *)
(* extension.                                                              *)
(*                                                                         *)
(*   Spec        the dynamic iframe script (src/src/content/               *)
(*               iframe-script.ts, first script body): the mutation        *)
(*               coordinator, the injection tracker and the generation     *)
(*               cycle of one monitored document, together with the        *)
(*               background worker answering its requests.                 *)
(*                                                                         *)
(* The script is single threaded: every handler runs to completion, so     *)
(* one action is one handler (or one host-page DOM change followed by the  *)
(* MutationObserver callbacks it schedules as microtasks).  Time is in     *)
(* milliseconds.                                                           *)
(***************************************************************************)
EXTENDS Integers, Sequences, FiniteSets, TLC

\* ------------------------------------------------------------------ bounds
MaxButtons == 3      \* controls ever created in the document
MaxInputs == 2       \* reply inputs the host page ever renders
MaxNow == 2000       \* ms after the load of the script up to which time is followed step by step
MaxNav == 1          \* URL changes of the document
MaxRequests == 2     \* generation requests ever sent by the document
MaxNotifs == 3       \* relevant change notifications counted in one burst
MaxMessages == 2     \* generate requests posted to the host window (clicks and other scripts)
MaxParsed == 6       \* largest number an aria-label of the page starts with
MaxStars == 6        \* star icons of one kind in the page
MaxRecords == 2      \* mutation records delivered in one batch
MaxIframes == 2      \* times the host page detects the reply iframe
MaxHealthChecks == 2 \* runs of the health check that are followed

\* ------------------------------------------------------- program constants
INJECTION_DEBOUNCE_MS == 1000
URL_CHECK_INTERVAL_MS == 500
STALE_BUTTON_MS == 600000
CACHE_TTL_MS == 5000
MAX_ENHANCEMENTS == 5
maxRetries == 5
HEALTH_CHECK_INTERVAL_MS == 30000

\* the platform attribute value of the reply input
YPqjbf == "YPqjbf"

VARIABLES
  \* ---- iframe-script.ts module state
  lastKnownUrl,
  mutationObserver,   \* subscription active (non-null)
  urlCheckInterval,   \* interval active (non-null)
  buttonObserver,     \* subscription active (non-null)
  injectedButtons,    \* Set<HTMLElement>: ids of tracked controls
  debounceTimer,      \* the variable is non-null
  lastInjectionTime,
  isInjecting,
  \* ---- browser state of the document
  now,                \* Date.now(), measured from the load of the script
  timerDue,           \* due time of the pending setTimeout, 0 when none
  currentUrl,         \* window.location.href (a version number)
  google,             \* layout of div.FkJOzc.lgfhc.LW6Hp
  inputs,             \* every reply input ever rendered: [hasId, value]
  attachedInput,      \* the attached [jsname="YPqjbf"] element, 0 when none
  buttons,            \* every control ever attached, in document order
  requests,           \* GENERATE_AI_RESPONSE requests sent by this document
  notice,             \* the transient notification last shown
  records,            \* MutationRecords queued for the mutationObserver callback
  \* ---- observation
  passes,             \* injection passes executed in the current burst
  notifs,             \* relevant notifications of the current burst
  lastNotif,          \* time of the last relevant notification
  probing,            \* instrumented run: DOM faults happen and bursts are counted
  passThrew,          \* the last pass left through an exception
  \* ---- legacy content script (src/unnamed/part_000), frame side
  isProcessingForm,
  lastProcessedFormId, \* a form id is recorded (non-empty)
  processingTimeout,  \* the 200 ms timer is pending
  enhancementCount,
  isAIGenerationInProgress,
  frameTextarea,      \* the frame's textarea: "none", "plain", "enhanced" (class set)
  frameValue,         \* its content
  aiButtons,          \* attached .ai-response-btn controls
  buttonDisabled,     \* the disabled attribute of the first of them
  frameNotice,        \* the notification last shown in the frame
  detectionThrew,     \* the last form detection left through an exception
  \* ---- legacy content script, host side and the channels
  sameOrigin,         \* the frame's origin is the host page's origin
  iframeSrc,          \* what the host's selectors find: "reply", "google", "none"
  hostInbox,          \* messages posted to the host window
  calls,              \* GENERATE_AI_RESPONSE calls of the host page
  frameInbox,         \* messages posted to the frame window
  \* ---- review page and the review data of the requests made for it
  page,               \* what the extraction selectors find in the document
  reviewData,         \* data.reviewData of the request of generateAIReply, <<>> before it
  reviewContext,      \* data.reviewContext of the request of the legacy click, <<>> before it
  reviewer,           \* text of the reviewer-name element
  reviewContextCache, \* <<>> for null, <<context>> otherwise
  reviewContextCacheTime,
  processedFormId,    \* lastProcessedFormId as a value: <<>> for '', <<name, rating>>
  \* ---- observation
  passSinceChange,    \* a detection pass ran since the displayed review last changed
  \* ---- start of the legacy script in the host page and in the frame
  messageListenerSetup, \* the flag of each document's script instance
  messageListeners,   \* 'message' listeners registered on each document's window
  loadListeners,      \* 'load' listeners on the reply iframe element
  iframeLoaded,       \* the 'load' event of the iframe was dispatched
  pings,              \* PING messages posted to the frame window, not yet dispatched
  pongs,              \* PONG messages posted to the host window, not yet dispatched
  lastDispatch,       \* handlers run for the latest message of each window, -1 before it
  scriptStarted,      \* the top level of the frame script ran
  urlMatches,         \* isReviewReplyIframe(window.location.href) in the frame
  domLoading,         \* document.readyState is 'loading' in the frame
  domListeners,       \* DOMContentLoaded listeners of initializeReplyFormEnhancement
  frameInits,         \* calls of initializeReplyFormEnhancement in the frame
  contentMonitoring,  \* the observer of setupContentChangeMonitoring is connected
  indicators,         \* the frame holds an indicator element other than the textarea
  retryCount,
  retryTimer,         \* a setTimeout(retryFormDetection, ...) is pending
  \* ---- periodic health check of the injection system
  healthChecks,       \* runs of the 30 s interval callback so far
  \* ---- timers of the injection debounce and of the legacy form detection
  timerTable,         \* every setTimeout of the two debouncers: [owner, state, runs]
  debounceHandle,     \* the timer debounceTimer refers to, 0 for null
  processingHandle,   \* the timer processingTimeout refers to, 0 for null
  \* ---- the .ai-response-btn controls of the legacy script, in document order
  controls,           \* [disabled, label] of each control
  clickedControl,     \* the control whose click started the current cycle, 0 before it
  generationPending,  \* a GENERATE_REQUEST is posted and its result is not handled
  revertTimers,       \* pending display-revert timers, by the branch that armed them
  \* ---- universal side panel
  isLoading,
  authChecks,         \* GET_AUTH_STATUS requests not yet answered
  generateRequests,   \* GENERATE_AI_RESPONSE requests of the panel not yet answered
  panelClicks,        \* clicks on Generate so far
  panelError          \* the error line of the panel is shown

engineVars == <<lastKnownUrl, mutationObserver, urlCheckInterval, buttonObserver,
                injectedButtons, debounceTimer, lastInjectionTime, isInjecting,
                now, timerDue, currentUrl, google, inputs, attachedInput, buttons,
                requests, notice, records,
                passes, notifs, lastNotif, probing, passThrew>>

legacyVars == <<isProcessingForm, lastProcessedFormId, processingTimeout,
                enhancementCount, isAIGenerationInProgress, frameTextarea,
                frameValue, aiButtons, buttonDisabled, frameNotice, detectionThrew,
                sameOrigin, iframeSrc, hostInbox, calls, frameInbox>>

cacheVars == <<reviewer, reviewContextCache, reviewContextCacheTime, processedFormId,
               passSinceChange>>

extractVars == <<page, reviewData, reviewContext, cacheVars>>

setupVars == <<messageListenerSetup, messageListeners, loadListeners, iframeLoaded,
               pings, pongs, lastDispatch, scriptStarted, urlMatches, domLoading,
               domListeners, frameInits, contentMonitoring, indicators, retryCount,
               retryTimer>>

timerVars == <<timerTable, debounceHandle, processingHandle>>

controlVars == <<controls, clickedControl, generationPending, revertTimers>>

panelVars == <<isLoading, authChecks, generateRequests, panelClicks, panelError>>

uiVars == <<timerVars, controlVars, panelVars>>

vars == <<engineVars, legacyVars, extractVars, setupVars, healthChecks, uiVars>>

\* no timer of the debouncers was armed, no control, the panel is idle
UiIdle ==
  /\ timerTable = <<>>
  /\ debounceHandle = 0
  /\ processingHandle = 0
  /\ controls = <<>>
  /\ clickedControl = 0
  /\ generationPending = FALSE
  /\ revertTimers = <<>>
  /\ isLoading = FALSE
  /\ authChecks = 0
  /\ generateRequests = 0
  /\ panelClicks = 0
  /\ panelError = FALSE

\* ------------------------------------------------------------- DOM queries
GoogleLayouts == {"none", "outside", "nested"}

\* what document.querySelector('[jsname="YPqjbf"]') returns: the element (0
\* when there is none) and whether it carries an id
Dom(ins, a) == [inp |-> a, hasId |-> IF a = 0 THEN FALSE ELSE ins[a].hasId]

AttachedButtons(bs) == {b \in DOMAIN bs : bs[b].attached}

\* a control that left the document: nothing refers to the node any more
Gone == [attached |-> FALSE, key |-> "", jsname |-> "", ts |-> 0, region |-> "",
         target |-> 0, busy |-> FALSE]

\* button.remove() / removeChild for the controls in S
Detach(bs, S) == [b \in DOMAIN bs |-> IF b \in S THEN Gone ELSE bs[b]]

\* querySelector over a set of candidates: the first in document order
FirstOf(S) == IF S = {} THEN 0 ELSE CHOOSE b \in S : \A c \in S : b <= c

\* controls inside the input's own container (form / parent element)
NearButtons(bs) == {b \in AttachedButtons(bs) : bs[b].region = "near"}
FarButtons(bs) == {b \in AttachedButtons(bs) : bs[b].region = "far"}

\* document.querySelector(`[jsname="${j}"]`) finds an attached element
ElementWithJsname(j, d) == j = YPqjbf /\ d.inp # 0

\* textarea.id || textarea.getAttribute('jsname') || 'anonymous-textarea'
TextareaId(d) == IF d.hasId THEN "textarea-id" ELSE YPqjbf

\* textarea.getAttribute('jsname') || textarea.id || 'anonymous-textarea'
TextareaIdentifier(d) == YPqjbf

\* --------------------------------------------------------- injection tracker
isLikelyReplyTextarea(d) == d.inp # 0

\* variant: the scan takes no notice of the controls in the document
hasAssociatedButton_never(bs, d) == FALSE

\* variant: only the container check, the attribute check left out
hasAssociatedButton_containerOnly(bs, d) == NearButtons(bs) # {}

hasAssociatedButton(bs, d) ==
  \/ \E b \in AttachedButtons(bs) : bs[b].jsname = YPqjbf
  \/ NearButtons(bs) # {}

\* variant: only the age of a control is looked at
CleanupRemoves_ageOnly(bs, d, t) ==
  {b \in AttachedButtons(bs) : t - bs[b].ts > STALE_BUTTON_MS}

\* variant: only the input of a control is looked for
CleanupRemoves_orphansOnly(bs, d, t) ==
  {b \in AttachedButtons(bs) : ~ElementWithJsname(bs[b].jsname, d)}

CleanupRemoves(bs, d, t) ==
  {b \in AttachedButtons(bs) :
     \/ ~ElementWithJsname(bs[b].jsname, d)
     \/ t - bs[b].ts > STALE_BUTTON_MS}

cleanupOrphanedButtons(bs, inj, d, t) ==
  [buttons  |-> Detach(bs, CleanupRemoves(bs, d, t)),
   injected |-> inj \ CleanupRemoves(bs, d, t)]

findAllReplyTextareas(bs, d) ==
  IF d.inp # 0 /\ isLikelyReplyTextarea(d) /\ ~hasAssociatedButton(bs, d)
  THEN {d.inp} ELSE {}

findExistingButtonForTextarea(bs, inj, d) ==
  LET byId == {b \in AttachedButtons(bs) : bs[b].key = TextareaId(d) /\ b \in inj}
      near == FirstOf(NearButtons(bs))
  IN  IF byId # {} THEN FirstOf(byId)
      ELSE IF near # 0 /\ near \in inj THEN near
      ELSE 0

\* the region the control is attached to: strategy 1 puts it in the platform
\* button container (outside or inside the input's container), strategies 2
\* and 3 next to the input; "throws" when insertBefore rejects a reference
\* button that is not a child of the container
findBestInjectionPoint(d) ==
  CASE google = "outside" -> "far"
    [] google = "nested"  -> "throws"
    [] OTHER              -> "near"

\* createAIButton + injectButtonAtPoint: the attached, labelled control
injectButtonAtPoint(d, region, t) ==
  [attached |-> TRUE, key |-> TextareaIdentifier(d), jsname |-> YPqjbf,
   ts |-> t, region |-> region, target |-> d.inp, busy |-> FALSE]

\* variant: the control is tracked before it is inserted
injectAIButtonForTextarea_tracksFirst(bs, inj, d, t) ==
  IF findExistingButtonForTextarea(bs, inj, d) # 0
  THEN [buttons |-> bs, injected |-> inj]
  ELSE IF findBestInjectionPoint(d) = "throws"
  THEN [buttons  |-> Append(bs, [injectButtonAtPoint(d, "", t) EXCEPT !.attached = FALSE]),
        injected |-> inj \cup {Len(bs) + 1}]
  ELSE [buttons  |-> Append(bs, injectButtonAtPoint(d, findBestInjectionPoint(d), t)),
        injected |-> inj \cup {Len(bs) + 1}]

injectAIButtonForTextarea(bs, inj, d, t) ==
  IF findExistingButtonForTextarea(bs, inj, d) # 0
  THEN [buttons |-> bs, injected |-> inj]
  ELSE IF findBestInjectionPoint(d) = "throws"
  THEN [buttons |-> bs, injected |-> inj]
  ELSE [buttons  |-> Append(bs, injectButtonAtPoint(d, findBestInjectionPoint(d), t)),
        injected |-> inj \cup {Len(bs) + 1}]

\* variant: the flag is reset on the normal exit only
performInjection_noFinally(bs, inj, d, t, fault) ==
  IF fault
  THEN [buttons |-> bs, injected |-> inj, isInjecting |-> TRUE]
  ELSE LET c  == cleanupOrphanedButtons(bs, inj, d, t)
           ts == findAllReplyTextareas(c.buttons, d)
           r  == IF ts = {} THEN c
                 ELSE injectAIButtonForTextarea(c.buttons, c.injected, d, t)
       IN  [buttons |-> r.buttons, injected |-> r.injected, isInjecting |-> FALSE]

\* try { cleanup; scan; inject } finally { isInjecting = false }
\* fault: a DOM call of the cleanup throws
performInjection(bs, inj, d, t, fault) ==
  IF fault
  THEN [buttons |-> bs, injected |-> inj, isInjecting |-> FALSE]
  ELSE LET c  == cleanupOrphanedButtons(bs, inj, d, t)
           ts == findAllReplyTextareas(c.buttons, d)
           r  == IF ts = {} THEN c
                 ELSE injectAIButtonForTextarea(c.buttons, c.injected, d, t)
       IN  [buttons |-> r.buttons, injected |-> r.injected, isInjecting |-> FALSE]

\* ------------------------------------------------------ mutation coordinator
\* passes of the current burst after this step (notifs' is already set)
PassCount(base, ran) ==
  IF probing /\ notifs' \in 1..MaxNotifs THEN base + (IF ran THEN 1 ELSE 0) ELSE 0

\* performInjection() as the coordinator calls it: the guard on the flag,
\* then the pass
RunPass(bs, inj, d, fault, base) ==
  IF isInjecting
  THEN /\ buttons' = bs
       /\ injectedButtons' = inj
       /\ fault = FALSE
       /\ passes' = PassCount(base, FALSE)
       /\ UNCHANGED <<lastInjectionTime, isInjecting, passThrew>>
  ELSE LET r == performInjection(bs, inj, d, now, fault) IN
       /\ Len(r.buttons) <= MaxButtons
       /\ buttons' = r.buttons
       /\ injectedButtons' = r.injected
       /\ isInjecting' = r.isInjecting
       /\ lastInjectionTime' = now
       /\ passes' = PassCount(base, TRUE)
       /\ passThrew' = fault

\* variant: a notification inside the window runs a pass and arms the timer
debouncedInjectAIButtons_noCoalescing(bs, inj, d, fault, base) ==
  IF now - lastInjectionTime < INJECTION_DEBOUNCE_MS
  THEN /\ debounceTimer' = TRUE
       /\ timerDue' = now + (INJECTION_DEBOUNCE_MS - (now - lastInjectionTime))
       /\ RunPass(bs, inj, d, fault, base)
  ELSE /\ debounceTimer' = FALSE
       /\ timerDue' = 0
       /\ RunPass(bs, inj, d, fault, base)

\* variant: the window is measured from the notification
debouncedInjectAIButtons_fromNotification(bs, inj, d, fault, base) ==
  IF now - lastInjectionTime < INJECTION_DEBOUNCE_MS
  THEN /\ debounceTimer' = TRUE
       /\ timerDue' = now + INJECTION_DEBOUNCE_MS
       /\ buttons' = bs
       /\ injectedButtons' = inj
       /\ fault = FALSE
       /\ passes' = PassCount(base, FALSE)
       /\ UNCHANGED <<lastInjectionTime, isInjecting, passThrew>>
  ELSE /\ debounceTimer' = FALSE
       /\ timerDue' = 0
       /\ RunPass(bs, inj, d, fault, base)

debouncedInjectAIButtons(bs, inj, d, fault, base) ==
  IF now - lastInjectionTime < INJECTION_DEBOUNCE_MS
  THEN /\ debounceTimer' = TRUE
       /\ timerDue' = now + (INJECTION_DEBOUNCE_MS - (now - lastInjectionTime))
       /\ buttons' = bs
       /\ injectedButtons' = inj
       /\ fault = FALSE
       /\ passes' = PassCount(base, FALSE)
       /\ UNCHANGED <<lastInjectionTime, isInjecting, passThrew>>
  ELSE /\ debounceTimer' = FALSE
       /\ timerDue' = 0
       /\ RunPass(bs, inj, d, fault, base)

\* a DOM call inside a pass may throw (instrumented runs only)
Faults == IF probing THEN BOOLEAN ELSE {FALSE}

\* the burst a relevant change notification arriving now belongs to
Notified ==
  IF notifs >= 1 /\ now - lastNotif < INJECTION_DEBOUNCE_MS
  THEN IF notifs >= MaxNotifs THEN MaxNotifs + 1 ELSE notifs + 1
  ELSE 1

\* the MutationObserver callback for a batch with a relevant record
\* (shouldTriggerScan): handleTextareaChanges -> debouncedInjectAIButtons
handleTextareaChanges(bs, inj, d) ==
  IF mutationObserver
  THEN /\ notifs' = IF probing THEN Notified ELSE 0
       /\ lastNotif' = IF probing THEN now ELSE 0
       /\ \E fault \in Faults :
            debouncedInjectAIButtons(bs, inj, d, fault, IF Notified = 1 THEN 0 ELSE passes)
  ELSE /\ buttons' = bs
       /\ injectedButtons' = inj
       /\ UNCHANGED <<debounceTimer, timerDue, lastInjectionTime, isInjecting,
                      passes, notifs, lastNotif, probing, passThrew>>

\* the button observer callback for removed controls
ButtonObserved(inj, removed) == IF buttonObserver THEN inj \ removed ELSE inj


\* ------------------------------------------------------------------ state
\* the document as the script finds it when it loads
InitialDoms == {<<>>} \cup {<<[hasId |-> hid, value |-> ""]>> : hid \in BOOLEAN}

\* the state after the script body has run in a document whose URL has
\* /customers/reviews: initializeDynamicInjectionSystem made the
\* subscriptions and the initial scan ran at once (lastInjectionTime was 0)
\* no review is looked at
CacheIdle ==
  /\ reviewer = "Ana"
  /\ reviewContextCache = <<>>
  /\ reviewContextCacheTime = 0
  /\ processedFormId = <<>>
  /\ passSinceChange = FALSE

\* no review is looked at
ExtractIdle ==
  /\ CacheIdle
  /\ page = <<>>
  /\ reviewData = <<>>
  /\ reviewContext = <<>>

Documents == {"host", "frame"}

\* the legacy script has not started in either document
SetupIdle ==
  /\ messageListenerSetup = [d \in Documents |-> FALSE]
  /\ messageListeners = [d \in Documents |-> 0]
  /\ loadListeners = 0
  /\ iframeLoaded = FALSE
  /\ pings = 0
  /\ pongs = 0
  /\ lastDispatch = [d \in Documents |-> -1]
  /\ scriptStarted = FALSE
  /\ urlMatches = TRUE
  /\ domLoading = FALSE
  /\ domListeners = 0
  /\ frameInits = 0
  /\ contentMonitoring = FALSE
  /\ indicators = FALSE
  /\ retryCount = 0
  /\ retryTimer = FALSE

\* no legacy script runs in the document
LegacyIdle ==
  /\ isProcessingForm = FALSE
  /\ lastProcessedFormId = FALSE
  /\ processingTimeout = FALSE
  /\ enhancementCount = 0
  /\ isAIGenerationInProgress = FALSE
  /\ frameTextarea = "none"
  /\ frameValue = ""
  /\ aiButtons = 0
  /\ buttonDisabled = FALSE
  /\ frameNotice = "none"
  /\ detectionThrew = FALSE
  /\ sameOrigin = TRUE
  /\ iframeSrc = "none"
  /\ hostInbox = <<>>
  /\ calls = <<>>
  /\ frameInbox = <<>>

InitDoc(p) ==
  /\ healthChecks = 0
  /\ UiIdle
  /\ LegacyIdle
  /\ SetupIdle
  /\ ExtractIdle
  /\ probing = p
  /\ google \in GoogleLayouts
  /\ inputs \in InitialDoms
  /\ attachedInput = Len(inputs)
  /\ now = 0
  /\ currentUrl = 0
  /\ lastKnownUrl = 0
  /\ mutationObserver = TRUE
  /\ urlCheckInterval = TRUE
  /\ buttonObserver = TRUE
  /\ debounceTimer = FALSE
  /\ timerDue = 0
  /\ LET r == performInjection(<<>>, {}, Dom(inputs, attachedInput), 0, FALSE)
     IN  /\ buttons = r.buttons
         /\ injectedButtons = r.injected
         /\ isInjecting = r.isInjecting
  /\ lastInjectionTime = 0
  /\ passes = 0
  /\ notifs = 0
  /\ lastNotif = 0
  /\ passThrew = FALSE
  /\ requests = <<>>
  /\ notice = "none"
  /\ records = <<>>

Init == InitDoc(FALSE)

\* ---------------------------------------------------------- host page steps
HostInsertInput(hid) ==
  /\ records = <<>> /\ UNCHANGED <<legacyVars, extractVars, setupVars, healthChecks, uiVars, records>>
  /\ attachedInput = 0
  /\ Len(inputs) < MaxInputs
  /\ inputs' = Append(inputs, [hasId |-> hid, value |-> ""])
  /\ attachedInput' = Len(inputs) + 1
  /\ handleTextareaChanges(buttons, injectedButtons, Dom(inputs', attachedInput'))
  /\ UNCHANGED <<lastKnownUrl, mutationObserver, urlCheckInterval, buttonObserver,
                 now, currentUrl, google, probing, requests, notice>>

HostRemoveInput ==
  /\ records = <<>> /\ UNCHANGED <<legacyVars, extractVars, setupVars, healthChecks, uiVars, records>>
  /\ attachedInput # 0
  /\ attachedInput' = 0
  /\ handleTextareaChanges(buttons, injectedButtons, Dom(inputs, 0))
  /\ UNCHANGED <<lastKnownUrl, mutationObserver, urlCheckInterval, buttonObserver,
                 now, currentUrl, google, probing, requests, notice, inputs>>

\* the host page re-renders the form: the input and the controls inside its
\* container leave the document together
HostRemoveContainer ==
  /\ records = <<>> /\ UNCHANGED <<legacyVars, extractVars, setupVars, healthChecks, uiVars, records>>
  /\ attachedInput # 0
  /\ NearButtons(buttons) # {}
  /\ attachedInput' = 0
  /\ handleTextareaChanges(Detach(buttons, NearButtons(buttons)),
                           ButtonObserved(injectedButtons, NearButtons(buttons)),
                           Dom(inputs, 0))
  /\ UNCHANGED <<lastKnownUrl, mutationObserver, urlCheckInterval, buttonObserver,
                 now, currentUrl, google, probing, requests, notice, inputs>>

\* the host page re-renders its button row: the container
\* div.FkJOzc.lgfhc.LW6Hp appears, goes away with the controls in it, or its
\* button moves into or out of a wrapper element; none of these records is
\* relevant to the mutation filter
HostRearrangesButtons(layout) ==
  /\ records = <<>> /\ UNCHANGED <<legacyVars, extractVars, setupVars, healthChecks, uiVars, records>>
  /\ layout \in GoogleLayouts \ {google}
  /\ google' = layout
  /\ IF layout = "none"
     THEN /\ buttons' = Detach(buttons, FarButtons(buttons))
          /\ injectedButtons' = ButtonObserved(injectedButtons, FarButtons(buttons))
     ELSE UNCHANGED <<buttons, injectedButtons>>
  /\ UNCHANGED <<lastKnownUrl, mutationObserver, urlCheckInterval, buttonObserver,
                 debounceTimer, lastInjectionTime, isInjecting, now, timerDue, currentUrl,
                 probing, requests, notice, inputs, attachedInput, passes, notifs, lastNotif, passThrew>>

\* the host page removes a control node; the removal is no relevant change
HostRemoveButton(b) ==
  /\ records = <<>> /\ UNCHANGED <<legacyVars, extractVars, setupVars, healthChecks, uiVars, records>>
  /\ b \in AttachedButtons(buttons)
  /\ buttons' = Detach(buttons, {b})
  /\ injectedButtons' = ButtonObserved(injectedButtons, {b})
  /\ UNCHANGED <<lastKnownUrl, mutationObserver, urlCheckInterval, buttonObserver,
                 debounceTimer, lastInjectionTime, isInjecting, now, timerDue, currentUrl,
                 google, probing, requests, notice, inputs, attachedInput, passes, notifs, lastNotif, passThrew>>

\* a form / modal / dialog is added, or a watched attribute of the input changes
HostStructuralChange ==
  /\ records = <<>> /\ UNCHANGED <<legacyVars, extractVars, setupVars, healthChecks, uiVars, records>>
  /\ mutationObserver
  /\ handleTextareaChanges(buttons, injectedButtons, Dom(inputs, attachedInput))
  /\ UNCHANGED <<lastKnownUrl, mutationObserver, urlCheckInterval, buttonObserver,
                 now, currentUrl, google, probing, requests, notice, inputs, attachedInput>>

HostNavigate ==
  /\ records = <<>> /\ UNCHANGED <<legacyVars, extractVars, setupVars, healthChecks, uiVars, records>>
  /\ currentUrl < MaxNav
  /\ currentUrl' = currentUrl + 1
  /\ UNCHANGED <<lastKnownUrl, mutationObserver, urlCheckInterval, buttonObserver,
                 injectedButtons, debounceTimer, lastInjectionTime, isInjecting, now,
                 timerDue, google, probing, requests, notice, inputs, attachedInput, buttons, passes, notifs,
                 lastNotif, passThrew>>

\* ------------------------------------------------------- mutation batches
\* attributeFilter of mutationObserver.observe
WatchedAttributes == {"id", "class", "placeholder", "jsname"}

\* records of changes that leave the reply input and the controls in place.
\* A node is "text" (a text node), "div" (an element that neither is nor
\* holds the input or a container), "form" (an element that is or holds a
\* form, .modal, .dialog, .review-reply-container or .reply-form); the
\* target is the input (typing into a contenteditable input adds text nodes
\* to it) or another element
Records ==
  {[type |-> "childList", target |-> "input", added |-> "text", removed |-> "none", attributeName |-> "none"],
   [type |-> "childList", target |-> "other", added |-> "div", removed |-> "none", attributeName |-> "none"],
   [type |-> "childList", target |-> "other", added |-> "none", removed |-> "div", attributeName |-> "none"],
   [type |-> "childList", target |-> "other", added |-> "form", removed |-> "none", attributeName |-> "none"],
   [type |-> "childList", target |-> "other", added |-> "none", removed |-> "form", attributeName |-> "none"],
   [type |-> "attributes", target |-> "other", added |-> "none", removed |-> "none", attributeName |-> "class"],
   [type |-> "attributes", target |-> "input", added |-> "none", removed |-> "none", attributeName |-> "class"]}

Batches == UNION {[1..n -> Records] : n \in 1..MaxRecords}

\* variant: every added element counts as a structural change
RecordTriggers_anyElement(r) ==
  IF r.type = "childList"
  THEN r.added \in {"input", "form", "div"} \/ r.removed = "input"
  ELSE r.target = "input" /\ r.attributeName \in WatchedAttributes

\* what one record contributes to shouldTriggerScan: an added or removed
\* element that matches or holds [jsname="YPqjbf"], an added element that
\* is or holds a container, a watched attribute of the matching element
RecordTriggers(r) ==
  IF r.type = "childList"
  THEN r.added = "input" \/ r.removed = "input" \/ r.added = "form"
  ELSE r.target = "input" /\ r.attributeName \in WatchedAttributes

\* shouldTriggerScan after mutations.forEach
shouldTriggerScan(batch) == \E i \in DOMAIN batch : RecordTriggers(batch[i])

\* the host page (or the user, typing) changes the document around the
\* input: the change is made at once, its records are queued
HostMutates(batch) ==
  /\ UNCHANGED <<legacyVars, extractVars, setupVars, healthChecks, uiVars>>
  /\ records = <<>>
  /\ mutationObserver
  /\ (\E i \in DOMAIN batch : batch[i].target = "input") => attachedInput # 0
  /\ inputs' = IF \E i \in DOMAIN batch : batch[i].type = "childList" /\ batch[i].target = "input"
               THEN [inputs EXCEPT ![attachedInput].value = "user"]
               ELSE inputs
  /\ records' = batch
  /\ UNCHANGED <<buttons, injectedButtons, debounceTimer, timerDue,
                 lastInjectionTime, isInjecting, passes, notifs, lastNotif, passThrew>>
  /\ UNCHANGED <<lastKnownUrl, mutationObserver, urlCheckInterval, buttonObserver,
                 now, currentUrl, google, probing, requests, notice, attachedInput>>

\* the callback of new MutationObserver(...), run with the queued records
\* at the end of the task that made the change
mutationObserverCallback ==
  /\ UNCHANGED <<legacyVars, extractVars, setupVars, healthChecks, uiVars>>
  /\ records # <<>>
  /\ records' = <<>>
  /\ IF shouldTriggerScan(records)
     THEN handleTextareaChanges(buttons, injectedButtons, Dom(inputs, attachedInput))
     ELSE UNCHANGED <<buttons, injectedButtons, debounceTimer, timerDue,
                      lastInjectionTime, isInjecting, passes, notifs, lastNotif, passThrew>>
  /\ UNCHANGED <<lastKnownUrl, mutationObserver, urlCheckInterval, buttonObserver,
                 now, currentUrl, google, probing, requests, notice, inputs, attachedInput>>

\* ------------------------------------------------------------- script steps
\* the URL poll: handleContentChange -> cleanupOrphanedButtons
UrlCheck ==
  /\ records = <<>> /\ UNCHANGED <<legacyVars, extractVars, setupVars, healthChecks, uiVars, records>>
  /\ urlCheckInterval
  /\ currentUrl # lastKnownUrl
  /\ lastKnownUrl' = currentUrl
  /\ LET c == cleanupOrphanedButtons(buttons, injectedButtons, Dom(inputs, attachedInput), now)
     IN  /\ buttons' = c.buttons
         /\ injectedButtons' = c.injected
  /\ UNCHANGED <<mutationObserver, urlCheckInterval, buttonObserver,
                 debounceTimer, lastInjectionTime, isInjecting, now, timerDue, currentUrl,
                 google, probing, requests, notice, inputs, attachedInput, passes, notifs, lastNotif, passThrew>>

\* the debounce timer's callback: performInjection(); debounceTimer = null
DebounceTimerFires ==
  /\ records = <<>> /\ UNCHANGED <<legacyVars, extractVars, setupVars, healthChecks, uiVars, records>>
  /\ timerDue # 0
  /\ now >= timerDue
  /\ timerDue' = 0
  /\ notifs' = notifs
  /\ \E fault \in Faults :
       /\ RunPass(buttons, injectedButtons, Dom(inputs, attachedInput), fault, passes)
       /\ debounceTimer' = IF fault THEN debounceTimer ELSE FALSE
  /\ UNCHANGED <<lastKnownUrl, mutationObserver, urlCheckInterval, buttonObserver,
                 now, currentUrl, google, probing, requests, notice, inputs, attachedInput, lastNotif>>

\* variant: the pending timer survives the teardown
cleanup_keepsTimer ==
  /\ records = <<>> /\ UNCHANGED <<legacyVars, extractVars, setupVars, healthChecks, uiVars, records>>
  /\ urlCheckInterval' = FALSE
  /\ mutationObserver' = FALSE
  /\ buttonObserver' = FALSE
  /\ injectedButtons' = {}
  /\ UNCHANGED <<lastKnownUrl, lastInjectionTime, isInjecting, now, currentUrl, debounceTimer, timerDue,
                 google, probing, requests, notice, inputs, attachedInput, buttons, passes, notifs, lastNotif,
                 passThrew>>

\* beforeunload / unload / pagehide
cleanup ==
  /\ records = <<>> /\ UNCHANGED <<legacyVars, extractVars, setupVars, healthChecks, uiVars, records>>
  /\ urlCheckInterval' = FALSE
  /\ debounceTimer' = FALSE
  /\ timerDue' = IF debounceTimer THEN 0 ELSE timerDue
  /\ mutationObserver' = FALSE
  /\ buttonObserver' = FALSE
  /\ injectedButtons' = {}
  /\ UNCHANGED <<lastKnownUrl, lastInjectionTime, isInjecting, now, currentUrl,
                 google, probing, requests, notice, inputs, attachedInput, buttons, passes, notifs, lastNotif,
                 passThrew>>

\* the callback of setInterval(..., 30000): it logs the state of the
\* subscriptions and changes none of them
HealthCheck ==
  /\ UNCHANGED <<engineVars, legacyVars, extractVars, setupVars, uiVars>>
  /\ healthChecks < MaxHealthChecks
  /\ now >= (healthChecks + 1) * HEALTH_CHECK_INTERVAL_MS
  /\ healthChecks' = healthChecks + 1

TickSteps == {URL_CHECK_INTERVAL_MS, STALE_BUTTON_MS + URL_CHECK_INTERVAL_MS}

\* time passes; a due timer fires before time moves on.  The clock is
\* followed in poll intervals up to MaxNow; one long wait may follow
Tick(d) ==
  /\ records = <<>> /\ UNCHANGED <<legacyVars, extractVars, setupVars, healthChecks, uiVars, records>>
  /\ IF d = URL_CHECK_INTERVAL_MS THEN now + d <= MaxNow ELSE now <= MaxNow
  /\ timerDue = 0 \/ now + d <= timerDue
  /\ now' = now + d
  /\ UNCHANGED <<lastKnownUrl, mutationObserver, urlCheckInterval, buttonObserver,
                 injectedButtons, debounceTimer, lastInjectionTime, isInjecting, timerDue,
                 currentUrl, google, probing, requests, notice, inputs, attachedInput, buttons, passes, notifs,
                 lastNotif, passThrew>>


\* ------------------------------------------------------- generation cycle
Results == {"ok", "empty", "error", "missing"}

\* the input's value or text content
CurrentValue(ins, i) == ins[i].value

\* document.querySelector('.ai-review-button')
FirstButton(bs) == FirstOf(AttachedButtons(bs))

SetBusy(bs, v) ==
  IF FirstButton(bs) = 0 THEN bs ELSE [bs EXCEPT ![FirstButton(bs)].busy = v]

showLoadingState(bs) == SetBusy(bs, TRUE)

hideLoadingState(bs) == SetBusy(bs, FALSE)

\* hideLoadingState, then the value (or text content) of the element is set
insertGeneratedResponse(ins, i, text) == [ins EXCEPT ![i].value = text]

\* the text of a result
ResponseText(res) == IF res = "ok" THEN "ai" ELSE ""

\* response && response.success
ResponseSuccess(res) == res \in {"ok", "empty"}

\* variant: the callback writes whatever text the result carries
CallbackInserts_always(ins, i, res) == TRUE

\* the guard of the callback before it writes
CallbackInserts(ins, i, res) == Len(ResponseText(res)) > 0 \/ Len(CurrentValue(ins, i)) = 0

\* the element findAssociatedTextarea resolves for a control: the platform
\* input when it is attached (the model has no other text input)
findAssociatedTextarea(a) == a

\* variant: the message handler does not look at the success field
MessageSuccess_ignoresFlag(res) == res \in {"ok", "error"}

\* data && data.success && data.aiResponse && typeof data.aiResponse === 'string'
MessageSuccess(res) == res = "ok"

\* a request whose callback and result message need no further handling
Settled == [target |-> 0, res |-> "settled", msg |-> "none", cb |-> "handled",
            wrote |-> FALSE]

\* the requests after a delivery of request r was handled
Delivered(rs, r, field, writes) ==
  LET q == IF field = "msg" THEN [rs[r] EXCEPT !.msg = "handled", !.wrote = @ \/ writes]
                            ELSE [rs[r] EXCEPT !.cb = "handled", !.wrote = @ \/ writes]
  IN  [rs EXCEPT ![r] = IF q.cb = "handled" /\ q.msg # "pending" THEN Settled ELSE q]

\* a click that reaches the control: generateAIReply(textarea) of its closure
Click(b, extracted) ==
  /\ records = <<>> /\ UNCHANGED <<legacyVars, extractVars, setupVars, healthChecks, uiVars, records>>
  /\ b \in AttachedButtons(buttons)
  /\ ~buttons[b].busy
  /\ IF extracted
     THEN /\ Len(requests) < MaxRequests
          /\ buttons' = showLoadingState(buttons)
          /\ requests' = Append(requests, [target |-> buttons[b].target, res |-> "none",
                                           msg |-> "none", cb |-> "waiting",
                                           wrote |-> FALSE])
          /\ notice' = notice
     ELSE /\ notice' = "error"
          /\ notice # "error"
          /\ UNCHANGED <<buttons, requests>>
  /\ UNCHANGED <<lastKnownUrl, mutationObserver, urlCheckInterval, buttonObserver,
                 injectedButtons, debounceTimer, lastInjectionTime, isInjecting, now,
                 timerDue, currentUrl, google, probing, inputs, attachedInput, passes,
                 notifs, lastNotif, passThrew>>

\* the user types into the attached input
UserTypes ==
  /\ records = <<>> /\ UNCHANGED <<legacyVars, extractVars, setupVars, healthChecks, uiVars, records>>
  /\ attachedInput # 0
  /\ inputs[attachedInput].value # "user"
  /\ inputs' = [inputs EXCEPT ![attachedInput].value = "user"]
  /\ UNCHANGED <<lastKnownUrl, mutationObserver, urlCheckInterval, buttonObserver,
                 injectedButtons, debounceTimer, lastInjectionTime, isInjecting, now,
                 timerDue, currentUrl, google, probing, attachedInput, buttons, requests,
                 notice, passes, notifs, lastNotif, passThrew>>

\* the background worker answers request r: it sends AI_RESPONSE_RESULT to the
\* tab (sendResponseToContentScript swallows a failed send) and then answers
\* the request callback; a lost worker leaves the callback without a response
BackgroundAnswers(r, res, delivered) ==
  /\ records = <<>> /\ UNCHANGED <<legacyVars, extractVars, setupVars, healthChecks, uiVars, records>>
  /\ r \in DOMAIN requests
  /\ requests[r].res = "none"
  /\ res = "missing" => ~delivered
  /\ requests' = [requests EXCEPT ![r].res = res,
                                  ![r].msg = IF delivered THEN "pending" ELSE "none",
                                  ![r].cb = "pending"]
  /\ UNCHANGED <<lastKnownUrl, mutationObserver, urlCheckInterval, buttonObserver,
                 injectedButtons, debounceTimer, lastInjectionTime, isInjecting, now,
                 timerDue, currentUrl, google, probing, inputs, attachedInput, buttons,
                 notice, passes, notifs, lastNotif, passThrew>>

\* the message handler calls insertGeneratedResponse for request r
MessageWrites(r) ==
  /\ MessageSuccess(requests[r].res)
  /\ FirstButton(buttons) # 0
  /\ findAssociatedTextarea(attachedInput) # 0

\* the request callback calls insertGeneratedResponse for request r
CallbackWrites(r) ==
  /\ ResponseSuccess(requests[r].res)
  /\ CallbackInserts(inputs, requests[r].target, requests[r].res)

\* chrome.runtime.onMessage: AI_RESPONSE_RESULT
handleAIResponseResult(r) ==
  /\ records = <<>> /\ UNCHANGED <<legacyVars, extractVars, setupVars, healthChecks, uiVars, records>>
  /\ r \in DOMAIN requests
  /\ requests[r].msg = "pending"
  /\ requests' = Delivered(requests, r, "msg", MessageWrites(r))
  /\ LET button   == FirstButton(buttons)
         textarea == IF button # 0 THEN findAssociatedTextarea(attachedInput) ELSE 0
     IN  IF MessageSuccess(requests[r].res)
         THEN /\ IF textarea # 0
                 THEN /\ inputs' = insertGeneratedResponse(inputs, textarea, ResponseText(requests[r].res))
                      /\ buttons' = hideLoadingState(buttons)
                 ELSE UNCHANGED <<inputs, buttons>>
              /\ notice' = "success"
         ELSE /\ buttons' = IF textarea # 0 THEN hideLoadingState(buttons) ELSE buttons
              /\ inputs' = inputs
              /\ notice' = "error"
  /\ UNCHANGED <<lastKnownUrl, mutationObserver, urlCheckInterval, buttonObserver,
                 injectedButtons, debounceTimer, lastInjectionTime, isInjecting, now,
                 timerDue, currentUrl, google, probing, attachedInput, passes, notifs,
                 lastNotif, passThrew>>

\* AI_RESPONSE_RESULT for the request of another frame of the tab:
\* chrome.tabs.sendMessage(sender.tab.id, ...) names no frame, so the
\* listener of every frame of the tab runs handleAIResponseResult
ForeignResult(res) ==
  /\ records = <<>> /\ UNCHANGED <<legacyVars, extractVars, setupVars, healthChecks, uiVars, records>>
  /\ res \in Results \ {"missing"}
  /\ LET button   == FirstButton(buttons)
         textarea == IF button # 0 THEN findAssociatedTextarea(attachedInput) ELSE 0
     IN  IF MessageSuccess(res)
         THEN /\ IF textarea # 0
                 THEN /\ inputs' = insertGeneratedResponse(inputs, textarea, ResponseText(res))
                      /\ buttons' = hideLoadingState(buttons)
                 ELSE UNCHANGED <<inputs, buttons>>
              /\ notice' = "success"
         ELSE /\ buttons' = IF textarea # 0 THEN hideLoadingState(buttons) ELSE buttons
              /\ inputs' = inputs
              /\ notice' = "error"
  /\ UNCHANGED <<lastKnownUrl, mutationObserver, urlCheckInterval, buttonObserver,
                 injectedButtons, debounceTimer, lastInjectionTime, isInjecting, now,
                 timerDue, currentUrl, google, probing, attachedInput, requests, passes,
                 notifs, lastNotif, passThrew>>

\* the callback of chrome.runtime.sendMessage in generateAIReply
generateAIReplyCallback(r) ==
  /\ records = <<>> /\ UNCHANGED <<legacyVars, extractVars, setupVars, healthChecks, uiVars, records>>
  /\ r \in DOMAIN requests
  /\ requests[r].cb = "pending"
  /\ requests' = Delivered(requests, r, "cb", CallbackWrites(r))
  /\ LET replyElement == requests[r].target
         res == requests[r].res
     IN  IF ResponseSuccess(res)
         THEN IF CallbackInserts(inputs, replyElement, res)
              THEN /\ inputs' = insertGeneratedResponse(inputs, replyElement, ResponseText(res))
                   /\ buttons' = hideLoadingState(buttons)
                   /\ notice' = notice
              ELSE UNCHANGED <<inputs, buttons, notice>>
         ELSE /\ notice' = "error"
              /\ buttons' = hideLoadingState(buttons)
              /\ inputs' = inputs
  /\ UNCHANGED <<lastKnownUrl, mutationObserver, urlCheckInterval, buttonObserver,
                 injectedButtons, debounceTimer, lastInjectionTime, isInjecting, now,
                 timerDue, currentUrl, google, probing, attachedInput, passes, notifs,
                 lastNotif, passThrew>>

\* ------------------------------------------ legacy content script (part_000)
\* no dynamic script runs in the document
EngineIdle ==
  /\ healthChecks = 0
  /\ UiIdle
  /\ probing = FALSE
  /\ google = "none"
  /\ inputs = <<>>
  /\ attachedInput = 0
  /\ now = 0
  /\ currentUrl = 0
  /\ lastKnownUrl = 0
  /\ mutationObserver = FALSE
  /\ urlCheckInterval = FALSE
  /\ buttonObserver = FALSE
  /\ debounceTimer = FALSE
  /\ timerDue = 0
  /\ buttons = <<>>
  /\ injectedButtons = {}
  /\ isInjecting = FALSE
  /\ lastInjectionTime = 0
  /\ passes = 0
  /\ notifs = 0
  /\ lastNotif = 0
  /\ passThrew = FALSE
  /\ requests = <<>>
  /\ notice = "none"
  /\ records = <<>>

\* the frame script has set up its listener in a reply frame of the host page
InitLegacy ==
  /\ EngineIdle
  /\ ExtractIdle
  /\ isProcessingForm = FALSE
  /\ lastProcessedFormId = FALSE
  /\ processingTimeout = FALSE
  /\ enhancementCount = 0
  /\ isAIGenerationInProgress = FALSE
  /\ frameTextarea \in {"none", "plain"}
  /\ frameValue = ""
  /\ aiButtons = 0
  /\ buttonDisabled = FALSE
  /\ frameNotice = "none"
  /\ detectionThrew = FALSE
  /\ sameOrigin \in BOOLEAN
  /\ iframeSrc \in {"reply", "google", "none"}
  /\ hostInbox = <<>>
  /\ calls = <<>>
  /\ frameInbox = <<>>
  /\ SetupIdle

\* the host page renders the reply form in the frame
HostRendersForm ==
  /\ UNCHANGED <<engineVars, extractVars, setupVars, healthChecks, uiVars>>
  /\ frameTextarea = "none"
  /\ frameTextarea' = "plain"
  /\ UNCHANGED <<isProcessingForm, lastProcessedFormId, processingTimeout,
                 enhancementCount, isAIGenerationInProgress, frameValue, aiButtons,
                 buttonDisabled, frameNotice, detectionThrew, sameOrigin, iframeSrc,
                 hostInbox, calls, frameInbox>>

\* the body of detectAndEnhanceReplyForm
detectAndEnhanceReplyFormCall ==
  /\ IF isProcessingForm
     THEN UNCHANGED <<enhancementCount, processingTimeout>>
     ELSE /\ enhancementCount' = enhancementCount + 1
          /\ processingTimeout' = IF enhancementCount + 1 > MAX_ENHANCEMENTS
                                  THEN processingTimeout ELSE TRUE
  /\ UNCHANGED <<isProcessingForm, lastProcessedFormId, isAIGenerationInProgress,
                 frameTextarea, frameValue, aiButtons, buttonDisabled, frameNotice,
                 detectionThrew, sameOrigin, iframeSrc, hostInbox, calls, frameInbox>>

\* called for a PING of the host page and for a significant content change
detectAndEnhanceReplyForm ==
  /\ UNCHANGED <<engineVars, extractVars, setupVars, healthChecks, uiVars>>
  /\ enhancementCount <= MAX_ENHANCEMENTS
  /\ detectAndEnhanceReplyFormCall

\* variant: the class marker is not looked at
enhanceReplyTextarea_noMarker(ta, n) == [textarea |-> "enhanced", aiButtons |-> n + 1]

\* the class marker ai-responder-enhanced guards the element
enhanceReplyTextarea(ta, n) ==
  IF ta = "enhanced"
  THEN [textarea |-> ta, aiButtons |-> n]
  ELSE [textarea |-> "enhanced", aiButtons |-> n + 1]

\* the selectors that match one element ('textarea', '[role="textbox"]', ...)
SelectorMatches == {1, 2}

\* try { ... } finally { isProcessingForm = false }; fault: the context
\* extraction throws; visits: how many of the selectors match the textarea
performFormDetection(ta, n, last, fault, visits) ==
  IF fault \/ last \/ ta = "none"
  THEN [textarea |-> ta, aiButtons |-> n, last |-> last, isProcessingForm |-> FALSE]
  ELSE LET e1 == enhanceReplyTextarea(ta, n)
           e2 == IF visits = 2 THEN enhanceReplyTextarea(e1.textarea, e1.aiButtons) ELSE e1
       IN  [textarea |-> e2.textarea, aiButtons |-> e2.aiButtons, last |-> TRUE,
            isProcessingForm |-> FALSE]

\* the 200 ms timer of detectAndEnhanceReplyForm fires
processingTimeoutFires(fault, visits) ==
  /\ UNCHANGED <<engineVars, extractVars, setupVars, healthChecks, uiVars>>
  /\ processingTimeout
  /\ processingTimeout' = FALSE
  /\ LET r == performFormDetection(frameTextarea, aiButtons, lastProcessedFormId, fault, visits)
     IN  /\ frameTextarea' = r.textarea
         /\ aiButtons' = r.aiButtons
         /\ lastProcessedFormId' = r.last
         /\ isProcessingForm' = r.isProcessingForm
  /\ detectionThrew' = fault
  /\ UNCHANGED <<enhancementCount, isAIGenerationInProgress, frameValue,
                 buttonDisabled, frameNotice, sameOrigin, iframeSrc, hostInbox,
                 calls, frameInbox>>

LegacyUserTypes ==
  /\ UNCHANGED <<engineVars, extractVars, setupVars, healthChecks, uiVars>>
  /\ frameTextarea # "none"
  /\ frameValue # "user"
  /\ frameValue' = "user"
  /\ UNCHANGED <<isProcessingForm, lastProcessedFormId, processingTimeout,
                 enhancementCount, isAIGenerationInProgress, frameTextarea, aiButtons,
                 buttonDisabled, frameNotice, detectionThrew, sameOrigin, iframeSrc,
                 hostInbox, calls, frameInbox>>

ClickMessages == {m \in DOMAIN hostInbox : hostInbox[m].click}

\* the click handler of setupAIButtonHandler; a click on a disabled control
\* or during a generation returns at once
LegacyClick ==
  /\ UNCHANGED <<engineVars, extractVars, setupVars, healthChecks, uiVars>>
  /\ aiButtons >= 1
  /\ ~(buttonDisabled \/ isAIGenerationInProgress)
  /\ Len(hostInbox) < MaxMessages
  /\ isAIGenerationInProgress' = TRUE
  /\ buttonDisabled' = TRUE
  /\ hostInbox' = Append(hostInbox, [source |-> "iframe_forward", reviewData |-> FALSE,
                                     click |-> TRUE, origin |-> sameOrigin, st |-> "posted"])
  /\ UNCHANGED <<isProcessingForm, lastProcessedFormId, processingTimeout,
                 enhancementCount, frameTextarea, frameValue, aiButtons, frameNotice,
                 detectionThrew, sameOrigin, iframeSrc, calls, frameInbox>>

MessageSources == {"iframe_forward", "main_page"}

\* another script of the page posts a generate request to the host window
ForeignPost(src, rd) ==
  /\ UNCHANGED <<engineVars, extractVars, setupVars, healthChecks, uiVars>>
  /\ Len(hostInbox) < MaxMessages
  /\ hostInbox' = Append(hostInbox, [source |-> src, reviewData |-> rd,
                                     click |-> FALSE, origin |-> TRUE, st |-> "posted"])
  /\ UNCHANGED <<isProcessingForm, lastProcessedFormId, processingTimeout,
                 enhancementCount, isAIGenerationInProgress, frameTextarea, frameValue,
                 aiButtons, buttonDisabled, frameNotice, detectionThrew, sameOrigin,
                 iframeSrc, calls, frameInbox>>

\* variant: the source tag is not looked at
handleIframeMessage_anySource(m) == TRUE

\* case 'AI_REVIEW_RESPONDER_GENERATE_REQUEST': the request is handled when
\* message.source === 'iframe_forward'
handleIframeMessage(m) == m.source = "iframe_forward"

\* the message listener of the host page: origin check, handleIframeMessage,
\* and handleAIGenerationRequest up to its await
HostListener(m) ==
  /\ UNCHANGED <<engineVars, extractVars, setupVars, healthChecks, uiVars>>
  /\ m \in DOMAIN hostInbox
  /\ hostInbox[m].st = "posted"
  /\ IF ~hostInbox[m].origin
     THEN /\ hostInbox' = [hostInbox EXCEPT ![m].st = "dropped"]
          /\ calls' = calls
     ELSE IF handleIframeMessage(hostInbox[m])
     THEN /\ hostInbox' = [hostInbox EXCEPT ![m].st = "called"]
          /\ calls' = Append(calls, [msg |-> m, out |-> "sent"])
     ELSE /\ hostInbox' = [hostInbox EXCEPT ![m].st = "ignored"]
          /\ calls' = calls
  /\ UNCHANGED <<isProcessingForm, lastProcessedFormId, processingTimeout,
                 enhancementCount, isAIGenerationInProgress, frameTextarea, frameValue,
                 aiButtons, buttonDisabled, frameNotice, detectionThrew, sameOrigin,
                 iframeSrc, frameInbox>>

\* service-worker.ts: 'reviewData' in message.data
isAIResponseRequestMessage(m) == m.reviewData

\* what the host's sendMessage callback can receive for message m; "reject":
\* chrome.runtime.lastError is set
BackgroundOutcomes(m) ==
  IF isAIResponseRequestMessage(m)
  THEN {"ok", "empty", "error", "reject"}
  ELSE {"invalid", "reject"}

\* the payloads of the background worker
Payload(out) ==
  CASE out = "ok"    -> [success |-> TRUE, status |-> "absent", aiResponse |-> "ai", error |-> ""]
    [] out = "empty" -> [success |-> TRUE, status |-> "absent", aiResponse |-> "", error |-> ""]
    [] out = "error" -> [success |-> FALSE, status |-> "absent", aiResponse |-> "",
                         error |-> "insufficient credits"]
    [] OTHER         -> [success |-> FALSE, status |-> "absent", aiResponse |-> "",
                         error |-> "Invalid AI response request"]

\* the messages handleAIGenerationRequest posts to the frame after its await
RelayResult(fi, out, src) ==
  IF out = "reject"
  THEN IF src = "reply"
       THEN Append(fi, [type |-> "AI_ERROR", out |-> out, st |-> "posted"])
       ELSE fi
  ELSE IF src # "none"
       THEN Append(fi, [type |-> "AI_RESPONSE", out |-> out, st |-> "posted"])
       ELSE fi

\* the background answers call c and handleAIGenerationRequest resumes
HostReceivesResponse(c, out) ==
  /\ UNCHANGED <<engineVars, extractVars, setupVars, healthChecks, uiVars>>
  /\ c \in DOMAIN calls
  /\ calls[c].out = "sent"
  /\ out \in BackgroundOutcomes(hostInbox[calls[c].msg])
  /\ calls' = [calls EXCEPT ![c].out = out]
  /\ frameInbox' = RelayResult(frameInbox, out, iframeSrc)
  /\ UNCHANGED <<isProcessingForm, lastProcessedFormId, processingTimeout,
                 enhancementCount, isAIGenerationInProgress, frameTextarea, frameValue,
                 aiButtons, buttonDisabled, frameNotice, detectionThrew, sameOrigin,
                 iframeSrc, hostInbox>>

\* variant: the success field decides
handleAIResponse_successField(p) == p.success /\ p.aiResponse # ""

\* responseData.status === 'success' && responseData.aiResponse
handleAIResponse(p) == p.status = "success" /\ p.aiResponse # ""

\* the message listener of the frame: handleAIResponse / handleAIError
FrameListener(f) ==
  /\ UNCHANGED <<engineVars, extractVars, setupVars, healthChecks, uiVars>>
  /\ f \in DOMAIN frameInbox
  /\ frameInbox[f].st = "posted"
  /\ IF frameInbox[f].type = "AI_RESPONSE" /\ handleAIResponse(Payload(frameInbox[f].out))
     THEN /\ frameValue' = IF frameTextarea # "none"
                           THEN Payload(frameInbox[f].out).aiResponse ELSE frameValue
          /\ frameNotice' = "success"
          /\ frameInbox' = [frameInbox EXCEPT ![f].st = "written"]
     ELSE /\ frameValue' = frameValue
          /\ frameNotice' = "error"
          /\ frameInbox' = [frameInbox EXCEPT ![f].st = "failed"]
  /\ buttonDisabled' = IF aiButtons >= 1 THEN FALSE ELSE buttonDisabled
  /\ isAIGenerationInProgress' = FALSE
  /\ UNCHANGED <<isProcessingForm, lastProcessedFormId, processingTimeout,
                 enhancementCount, frameTextarea, aiButtons, detectionThrew,
                 sameOrigin, iframeSrc, hostInbox, calls>>

NextLegacy ==
  \/ HostRendersForm
  \/ detectAndEnhanceReplyForm
  \/ \E fault \in BOOLEAN, visits \in SelectorMatches : processingTimeoutFires(fault, visits)
  \/ LegacyUserTypes
  \/ LegacyClick
  \/ \E src \in MessageSources, rd \in BOOLEAN : ForeignPost(src, rd)
  \/ \E m \in DOMAIN hostInbox : HostListener(m)
  \/ \E c \in DOMAIN calls, out \in {"ok", "empty", "error", "invalid", "reject"} :
       HostReceivesResponse(c, out)
  \/ \E f \in DOMAIN frameInbox : FrameListener(f)

SpecLegacy == InitLegacy /\ [][NextLegacy]_vars

\* the handshake: PINGs and the detection they start, before and after the
\* reply form is rendered
NextPing ==
  \/ HostRendersForm
  \/ detectAndEnhanceReplyForm
  \/ \E fault \in BOOLEAN, visits \in SelectorMatches : processingTimeoutFires(fault, visits)

SpecPing == InitLegacy /\ [][NextPing]_vars

\* ------------------------------------ start of the legacy script (part_000)
\* One host document and one reply frame in it.  The script instance of each
\* document has its own messageListenerSetup flag.

\* the frame script has not run yet; the frame URL may or may not match
InitSetup ==
  /\ EngineIdle
  /\ ExtractIdle
  /\ LegacyIdle
  /\ messageListenerSetup = [d \in Documents |-> FALSE]
  /\ messageListeners = [d \in Documents |-> 0]
  /\ loadListeners = 0
  /\ iframeLoaded = FALSE
  /\ pings = 0
  /\ pongs = 0
  /\ lastDispatch = [d \in Documents |-> -1]
  /\ scriptStarted = FALSE
  /\ urlMatches \in BOOLEAN
  /\ domLoading \in BOOLEAN
  /\ domListeners = 0
  /\ frameInits = 0
  /\ contentMonitoring = FALSE
  /\ indicators = FALSE
  /\ retryCount = 0
  /\ retryTimer = FALSE

hasReviewFormElements == frameTextarea # "none" \/ indicators

\* variant: the listener is added at every call
setupIframeCommunication_noGuard ==
  /\ loadListeners' = loadListeners + 1
  /\ messageListeners' = [messageListeners EXCEPT !["host"] = @ + 1]
  /\ messageListenerSetup' = [messageListenerSetup EXCEPT !["host"] = TRUE]

\* a 'load' listener on the iframe at every call, the 'message' listener of
\* the host window at the first
setupIframeCommunication ==
  /\ loadListeners' = loadListeners + 1
  /\ IF ~messageListenerSetup["host"]
     THEN /\ messageListeners' = [messageListeners EXCEPT !["host"] = @ + 1]
          /\ messageListenerSetup' = [messageListenerSetup EXCEPT !["host"] = TRUE]
     ELSE UNCHANGED <<messageListeners, messageListenerSetup>>

\* the host page finds the reply iframe: at its start (checkExistingIframes)
\* or in a node added later
handleNewIframe ==
  /\ UNCHANGED <<engineVars, extractVars, legacyVars, healthChecks, uiVars>>
  /\ loadListeners < MaxIframes
  /\ setupIframeCommunication
  /\ UNCHANGED <<iframeLoaded, pings, pongs, lastDispatch, scriptStarted, urlMatches,
                 domLoading, domListeners, frameInits, contentMonitoring, indicators,
                 retryCount, retryTimer>>

\* the 'load' event of the iframe: every 'load' listener posts a PING
IframeLoads ==
  /\ UNCHANGED <<engineVars, extractVars, legacyVars, healthChecks, uiVars>>
  /\ ~iframeLoaded
  /\ iframeLoaded' = TRUE
  /\ pings' = pings + loadListeners
  /\ UNCHANGED <<messageListenerSetup, messageListeners, loadListeners, pongs,
                 lastDispatch, scriptStarted, urlMatches, domLoading, domListeners,
                 frameInits, contentMonitoring, indicators, retryCount, retryTimer>>

\* the 'message' listener of the frame window at the first call, a content
\* observer at every call
setupReplyFormEnhancement ==
  /\ IF ~messageListenerSetup["frame"]
     THEN /\ messageListeners' = [messageListeners EXCEPT !["frame"] = @ + 1]
          /\ messageListenerSetup' = [messageListenerSetup EXCEPT !["frame"] = TRUE]
     ELSE UNCHANGED <<messageListeners, messageListenerSetup>>
  /\ contentMonitoring' = TRUE

initializeReplyFormEnhancement ==
  /\ frameInits' = frameInits + 1
  /\ IF domLoading
     THEN /\ domListeners' = domListeners + 1
          /\ UNCHANGED <<messageListeners, messageListenerSetup, contentMonitoring>>
     ELSE /\ domListeners' = domListeners
          /\ setupReplyFormEnhancement

\* the top level of the script in the frame
FrameScriptRuns ==
  /\ UNCHANGED <<engineVars, extractVars, legacyVars, healthChecks, uiVars>>
  /\ ~scriptStarted
  /\ scriptStarted' = TRUE
  /\ IF urlMatches
     THEN /\ initializeReplyFormEnhancement
          /\ retryTimer' = retryTimer
     ELSE /\ retryTimer' = TRUE
          /\ UNCHANGED <<frameInits, domListeners, messageListeners,
                         messageListenerSetup, contentMonitoring>>
  /\ UNCHANGED <<loadListeners, iframeLoaded, pings, pongs, lastDispatch, urlMatches,
                 domLoading, indicators, retryCount>>

\* DOMContentLoaded in the frame: the deferred setups run
DOMContentLoaded ==
  /\ UNCHANGED <<engineVars, extractVars, legacyVars, healthChecks, uiVars>>
  /\ domLoading
  /\ domLoading' = FALSE
  /\ domListeners' = 0
  /\ IF domListeners > 0
     THEN setupReplyFormEnhancement
     ELSE UNCHANGED <<messageListeners, messageListenerSetup, contentMonitoring>>
  /\ UNCHANGED <<loadListeners, iframeLoaded, pings, pongs, lastDispatch, scriptStarted,
                 urlMatches, frameInits, indicators, retryCount, retryTimer>>

\* variant: the probe goes on after a positive check
retryFormDetection_keepsProbing ==
  /\ UNCHANGED <<engineVars, extractVars, legacyVars, healthChecks, uiVars>>
  /\ retryTimer
  /\ retryCount' = retryCount + 1
  /\ IF hasReviewFormElements
     THEN /\ initializeReplyFormEnhancement
          /\ retryTimer' = TRUE
     ELSE /\ retryTimer' = (retryCount + 1 < maxRetries)
          /\ UNCHANGED <<frameInits, domListeners, messageListeners,
                         messageListenerSetup, contentMonitoring>>
  /\ UNCHANGED <<loadListeners, iframeLoaded, pings, pongs, lastDispatch, scriptStarted,
                 urlMatches, domLoading, indicators>>

\* the timer of the content probe fires
retryFormDetection ==
  /\ UNCHANGED <<engineVars, extractVars, legacyVars, healthChecks, uiVars>>
  /\ retryTimer
  /\ retryCount' = retryCount + 1
  /\ IF hasReviewFormElements
     THEN /\ initializeReplyFormEnhancement
          /\ retryTimer' = FALSE
     ELSE /\ retryTimer' = (retryCount + 1 < maxRetries)
          /\ UNCHANGED <<frameInits, domListeners, messageListeners,
                         messageListenerSetup, contentMonitoring>>
  /\ UNCHANGED <<loadListeners, iframeLoaded, pings, pongs, lastDispatch, scriptStarted,
                 urlMatches, domLoading, indicators>>

\* the host page adds or removes an element the probe takes for a form
HostTogglesIndicator ==
  /\ UNCHANGED <<engineVars, extractVars, legacyVars, healthChecks, uiVars>>
  /\ indicators' = ~indicators
  /\ UNCHANGED <<messageListenerSetup, messageListeners, loadListeners, iframeLoaded,
                 pings, pongs, lastDispatch, scriptStarted, urlMatches, domLoading,
                 domListeners, frameInits, contentMonitoring, retryCount, retryTimer>>

\* a PING is dispatched in the frame window: every registered listener
\* answers with a PONG and calls detectAndEnhanceReplyForm (the frame has
\* at most the one listener of setupReplyFormEnhancement)
FramePing ==
  /\ UNCHANGED <<engineVars, extractVars, healthChecks, uiVars>>
  /\ pings > 0
  /\ pings' = pings - 1
  /\ lastDispatch' = [lastDispatch EXCEPT !["frame"] = messageListeners["frame"]]
  /\ pongs' = pongs + messageListeners["frame"]
  /\ IF messageListeners["frame"] > 0 /\ enhancementCount <= MAX_ENHANCEMENTS
     THEN detectAndEnhanceReplyFormCall
     ELSE UNCHANGED legacyVars
  /\ UNCHANGED <<messageListenerSetup, messageListeners, loadListeners, iframeLoaded,
                 scriptStarted, urlMatches, domLoading, domListeners, frameInits,
                 contentMonitoring, indicators, retryCount, retryTimer>>

\* a PONG is dispatched in the host window; handleIframeMessage logs it
HostPong ==
  /\ UNCHANGED <<engineVars, extractVars, legacyVars, healthChecks, uiVars>>
  /\ pongs > 0
  /\ pongs' = pongs - 1
  /\ lastDispatch' = [lastDispatch EXCEPT !["host"] = messageListeners["host"]]
  /\ UNCHANGED <<messageListenerSetup, messageListeners, loadListeners, iframeLoaded,
                 pings, scriptStarted, urlMatches, domLoading, domListeners, frameInits,
                 contentMonitoring, indicators, retryCount, retryTimer>>

\* the content observer sees a significant change before a form was processed
ContentChange ==
  /\ UNCHANGED <<engineVars, extractVars, setupVars, healthChecks, uiVars>>
  /\ contentMonitoring
  /\ lastProcessedFormId = FALSE
  /\ enhancementCount <= MAX_ENHANCEMENTS
  /\ detectAndEnhanceReplyFormCall

\* the observer disconnects: after 10 s or at its fourth notification
ContentMonitorDisconnects ==
  /\ UNCHANGED <<engineVars, extractVars, legacyVars, healthChecks, uiVars>>
  /\ contentMonitoring
  /\ contentMonitoring' = FALSE
  /\ UNCHANGED <<messageListenerSetup, messageListeners, loadListeners, iframeLoaded,
                 pings, pongs, lastDispatch, scriptStarted, urlMatches, domLoading,
                 domListeners, frameInits, indicators, retryCount, retryTimer>>

NextSetup ==
  \/ handleNewIframe
  \/ IframeLoads
  \/ FrameScriptRuns
  \/ DOMContentLoaded
  \/ retryFormDetection
  \/ HostTogglesIndicator
  \/ HostRendersForm
  \/ FramePing
  \/ HostPong
  \/ ContentChange
  \/ ContentMonitorDisconnects
  \/ \E fault \in BOOLEAN, visits \in SelectorMatches : processingTimeoutFires(fault, visits)

SpecSetup == InitSetup /\ [][NextSetup]_vars

\* the frame after performFormDetection has enhanced the reply input: one
\* control, the class marker and the form id are set, no timer is pending
InitRelay ==
  /\ EngineIdle
  /\ ExtractIdle
  /\ isProcessingForm = FALSE
  /\ lastProcessedFormId = TRUE
  /\ processingTimeout = FALSE
  /\ enhancementCount = 1
  /\ isAIGenerationInProgress = FALSE
  /\ frameTextarea = "enhanced"
  /\ frameValue = ""
  /\ aiButtons = 1
  /\ buttonDisabled = FALSE
  /\ frameNotice = "none"
  /\ detectionThrew = FALSE
  /\ sameOrigin \in BOOLEAN
  /\ iframeSrc \in {"reply", "google", "none"}
  /\ hostInbox = <<>>
  /\ calls = <<>>
  /\ frameInbox = <<>>
  /\ SetupIdle

\* the click, the relay over the host page and the answer in the frame
NextRelay ==
  \/ LegacyUserTypes
  \/ LegacyClick
  \/ \E src \in MessageSources, rd \in BOOLEAN : ForeignPost(src, rd)
  \/ \E m \in DOMAIN hostInbox : HostListener(m)
  \/ \E c \in DOMAIN calls, out \in {"ok", "empty", "error", "invalid", "reject"} :
       HostReceivesResponse(c, out)
  \/ \E f \in DOMAIN frameInbox : FrameListener(f)

SpecRelay == InitRelay /\ [][NextRelay]_vars

\* --------------------------------------------------- review data extraction
\* the placeholder of extractReviewData for a review without text
EMPTY_REVIEW == "[Review with no text content]"

\* an aria-label: its wording and the number it starts with.  "es_full" is
\* "N de 5 estrellas", "en_full" "N out of 5 stars", "es_short" "N de 5",
\* "slash" "N/5"; "other" is a label without a rating, "absent" no element
LabelForms == {"es_full", "en_full", "es_short", "slash"}

Labels ==
  {[form |-> "absent", num |-> 0], [form |-> "other", num |-> 0]}
    \cup [form : LabelForms, num : 0..MaxParsed]

\* the labels of a second span[aria-label], later in document order
OtherLabels == {l \in Labels : l.form \in {"absent", "other", "es_full", "slash"}}

\* textContent of the review element; "absent": there is no such element
Texts == {"absent", "  ", "fine", "great", "bad", "great but bad"}

\* the documents an extraction may run in
Pages ==
  [ratingLabel : Labels, filledStars : 0..MaxStars, otherLabel : OtherLabels,
   starIcons : 0..MaxStars, text : Texts]

\* element?.textContent?.trim()
Trimmed(t) == IF t \in {"absent", "  "} THEN "" ELSE t

\* review_text.toLowerCase().includes(word) for a word of the positive list
IncludesPositive(t) == t \in {"great", "great but bad"}

\* the same for the negative list
IncludesNegative(t) == t \in {"bad", "great but bad"}

\* let review_rating: number | undefined
Undefined == -1

\* !review_rating
Falsy(r) == r = Undefined \/ r = 0

\* Method 1: the label of span.DYizzd against
\* /(\d+)\s*(?:de|out of)\s*5\s*(?:estrellas?|stars?)/i, then parseInt
RatingMethod1(p) ==
  IF p.ratingLabel.form \in {"es_full", "en_full"} THEN p.ratingLabel.num ELSE Undefined

\* Method 2: the filled stars inside span.DYizzd
RatingMethod2(p, r) ==
  IF Falsy(r) /\ p.ratingLabel.form # "absent" /\ p.filledStars > 0
  THEN p.filledStars ELSE r

\* querySelector('span[aria-label*="de 5 estrellas"], span[aria-label*="out of 5 stars"]')
AltRatingElement(p) ==
  IF p.ratingLabel.form \in {"es_full", "en_full"} THEN p.ratingLabel
  ELSE IF p.otherLabel.form \in {"es_full", "en_full"} THEN p.otherLabel
  ELSE [form |-> "absent", num |-> 0]

\* Method 3: that element's label against /(\d+)\s*(?:de|out of)\s*5/
RatingMethod3(p, r) ==
  IF Falsy(r) /\ AltRatingElement(p).form # "absent" THEN AltRatingElement(p).num ELSE r

\* Method 4: the first span[aria-label] whose label matches
\* /(\d+)\s*(?:de|out of|\/)\s*5\s*(?:estrellas?|stars?)?/i
RatingMethod4(p, r) ==
  IF ~Falsy(r) THEN r
  ELSE IF p.ratingLabel.form \in LabelForms THEN p.ratingLabel.num
  ELSE IF p.otherLabel.form \in LabelForms THEN p.otherLabel.num
  ELSE r

\* Method 5: the i[aria-hidden="true"] icons, when there are one to five
RatingMethod5(p, r) ==
  IF Falsy(r) /\ p.starIcons > 0 /\ p.starIcons <= 5 THEN p.starIcons ELSE r

\* the review text or the placeholder
ReviewText(p) == IF Len(Trimmed(p.text)) = 0 THEN EMPTY_REVIEW ELSE Trimmed(p.text)

\* Method 6: the rating the words of the text suggest
RatingMethod6(p, r) ==
  LET review_text == ReviewText(p)
      hasPositiveWords == review_text # EMPTY_REVIEW /\ IncludesPositive(review_text)
      hasNegativeWords == review_text # EMPTY_REVIEW /\ IncludesNegative(review_text)
  IN  IF ~Falsy(r) THEN r
      ELSE IF hasPositiveWords /\ ~hasNegativeWords THEN 5
      ELSE IF hasNegativeWords THEN 1
      ELSE 3

\* extractReviewData(): <<>> stands for null.  reviewer_name does not enter
\* the rating or the text; the null return needs a falsy rating
extractReviewData(p) ==
  LET r == RatingMethod6(p, RatingMethod5(p, RatingMethod4(p,
             RatingMethod3(p, RatingMethod2(p, RatingMethod1(p))))))
  IN  IF Falsy(r) /\ ReviewText(p) = EMPTY_REVIEW
      THEN <<>>
      ELSE <<[review_rating |-> r, review_text |-> ReviewText(p)]>>

\* extractReviewContext() of the legacy script: the label of span.DYizzd
\* against /(\d+)\s+de\s+(\d+)/, 5 when it does not match; the text or ''
extractReviewContext(p) ==
  [rating     |-> IF p.ratingLabel.form \in {"es_full", "es_short"}
                  THEN p.ratingLabel.num ELSE 5,
   reviewText |-> Trimmed(p.text)]

\* the review page has rendered
InitExtract ==
  /\ EngineIdle
  /\ LegacyIdle
  /\ SetupIdle
  /\ CacheIdle
  /\ page \in Pages
  /\ reviewData = <<>>
  /\ reviewContext = <<>>

\* generateAIReply up to chrome.runtime.sendMessage: the request carries
\* what extractReviewData returned; no request is sent for null
GenerateRequest ==
  /\ UNCHANGED <<engineVars, legacyVars, setupVars, healthChecks, uiVars>>
  /\ reviewData = <<>>
  /\ extractReviewData(page) # <<>>
  /\ reviewData' = extractReviewData(page)
  /\ UNCHANGED <<page, reviewContext, cacheVars>>

\* extractReviewContext() with its cache: a context cached less than
\* CACHE_TTL_MS ago is returned as it is, otherwise the page is read and
\* the result cached
extractReviewContextCached(p, name, cache, cacheTime, t) ==
  IF cache # <<>> /\ t - cacheTime < CACHE_TTL_MS
  THEN [ctx |-> cache[1], cache |-> cache, time |-> cacheTime]
  ELSE LET c == [reviewerName |-> name,
                 rating       |-> extractReviewContext(p).rating,
                 reviewText   |-> extractReviewContext(p).reviewText]
       IN  [ctx |-> c, cache |-> <<c>>, time |-> t]

\* the legacy click handler up to window.parent.postMessage: the request
\* carries what extractReviewContext returned
LegacyGenerateRequest ==
  /\ UNCHANGED <<engineVars, legacyVars, setupVars, healthChecks, uiVars>>
  /\ reviewContext = <<>>
  /\ LET r == extractReviewContextCached(page, reviewer, reviewContextCache,
                                         reviewContextCacheTime, now)
     IN  /\ reviewContext' = <<r.ctx>>
         /\ reviewContextCache' = r.cache
         /\ reviewContextCacheTime' = r.time
  /\ UNCHANGED <<page, reviewData, reviewer, processedFormId, passSinceChange>>

NextExtract ==
  \/ GenerateRequest
  \/ LegacyGenerateRequest

SpecExtract == InitExtract /\ [][NextExtract]_vars

\* ----------------------------------------- the cache across a review change
\* the reviews the frame displays one after the other
CachePages ==
  [ratingLabel : {[form |-> "es_full", num |-> n] : n \in {1, 5}},
   filledStars : {0}, otherLabel : {[form |-> "absent", num |-> 0]},
   starIcons : {0}, text : {"great", "bad"}]

Reviewers == {"Ana", "Ben"}

\* `${reviewContext.reviewerName}-${reviewContext.rating}`
FormId(ctx) == <<ctx.reviewerName, ctx.rating>>

\* the frame shows a review and its reply textarea; no pass has run yet
InitCache ==
  /\ EngineIdle
  /\ isProcessingForm = FALSE
  /\ lastProcessedFormId = FALSE
  /\ processingTimeout = FALSE
  /\ enhancementCount = 0
  /\ isAIGenerationInProgress = FALSE
  /\ frameTextarea = "plain"
  /\ frameValue = ""
  /\ aiButtons = 0
  /\ buttonDisabled = FALSE
  /\ frameNotice = "none"
  /\ detectionThrew = FALSE
  /\ sameOrigin = TRUE
  /\ iframeSrc = "reply"
  /\ hostInbox = <<>>
  /\ calls = <<>>
  /\ frameInbox = <<>>
  /\ SetupIdle
  /\ page \in CachePages
  /\ reviewer \in Reviewers
  /\ reviewData = <<>>
  /\ reviewContext = <<>>
  /\ reviewContextCache = <<>>
  /\ reviewContextCacheTime = 0
  /\ processedFormId = <<>>
  /\ passSinceChange = FALSE

\* the host page displays another review in the frame
HostShowsReview(p, name) ==
  /\ UNCHANGED <<engineVars, legacyVars, setupVars, healthChecks, uiVars>>
  /\ <<p, name>> # <<page, reviewer>>
  /\ page' = p
  /\ reviewer' = name
  /\ passSinceChange' = FALSE
  /\ UNCHANGED <<reviewData, reviewContext, reviewContextCache, reviewContextCacheTime,
                 processedFormId>>

\* performFormDetection on the displayed review: the context comes from
\* extractReviewContext (cache first); an unchanged form id ends the pass,
\* a changed one clears the cache; the textarea is enhanced and the form id
\* recorded
performFormDetectionOnReview ==
  /\ UNCHANGED <<engineVars, setupVars, healthChecks, uiVars>>
  /\ ~isProcessingForm
  /\ LET r      == extractReviewContextCached(page, reviewer, reviewContextCache,
                                              reviewContextCacheTime, now)
         formId == FormId(r.ctx)
     IN  IF processedFormId = formId
         THEN /\ reviewContextCache' = r.cache
              /\ reviewContextCacheTime' = r.time
              /\ UNCHANGED <<processedFormId, lastProcessedFormId, frameTextarea, aiButtons>>
         ELSE /\ reviewContextCache' = IF processedFormId # <<>> THEN <<>> ELSE r.cache
              /\ reviewContextCacheTime' = IF processedFormId # <<>> THEN 0 ELSE r.time
              /\ LET e == enhanceReplyTextarea(frameTextarea, aiButtons)
                 IN  /\ frameTextarea' = e.textarea
                     /\ aiButtons' = e.aiButtons
              /\ processedFormId' = formId
              /\ lastProcessedFormId' = TRUE
  /\ passSinceChange' = TRUE
  /\ UNCHANGED <<page, reviewer, reviewData, reviewContext>>
  /\ UNCHANGED <<isProcessingForm, processingTimeout, enhancementCount,
                 isAIGenerationInProgress, frameValue, buttonDisabled, frameNotice,
                 detectionThrew, sameOrigin, iframeSrc, hostInbox, calls, frameInbox>>

NextCache ==
  \/ \E p \in CachePages, name \in Reviewers : HostShowsReview(p, name)
  \/ performFormDetectionOnReview
  \/ LegacyGenerateRequest
  \/ \E d \in TickSteps : Tick(d)

SpecCache == InitCache /\ [][NextCache]_vars

\* the injection engine of one monitored document and its host page
Next ==
  \/ \E hid \in BOOLEAN : HostInsertInput(hid)
  \/ HostRemoveInput
  \/ HostRemoveContainer
  \/ \E b \in DOMAIN buttons : HostRemoveButton(b)
  \/ HostStructuralChange
  \/ HostNavigate
  \/ UrlCheck
  \/ DebounceTimerFires
  \/ cleanup
  \/ \E d \in TickSteps : Tick(d)

Spec == Init /\ [][Next]_vars

\* the coordinator under observation: passes may throw, bursts are counted
InitCoord == InitDoc(TRUE)

NextCoord ==
  \/ \E hid \in BOOLEAN : HostInsertInput(hid)
  \/ HostRemoveInput
  \/ \E b \in DOMAIN buttons : HostRemoveButton(b)
  \/ HostStructuralChange
  \/ DebounceTimerFires
  \/ Tick(URL_CHECK_INTERVAL_MS)

SpecCoord == InitCoord /\ [][NextCoord]_vars

\* reconciliation alone: the host page changes inputs and URL but never
\* touches a control, so a control leaves the document only by a purge
NextRecon ==
  \/ \E hid \in BOOLEAN : HostInsertInput(hid)
  \/ HostRemoveInput
  \/ HostStructuralChange
  \/ HostNavigate
  \/ UrlCheck
  \/ DebounceTimerFires
  \/ \E d \in TickSteps : Tick(d)

SpecRecon == Init /\ [][NextRecon]_vars

\* the document whose button row changes while inputs come and go
NextLayout ==
  \/ \E hid \in BOOLEAN : HostInsertInput(hid)
  \/ HostRemoveInput
  \/ HostStructuralChange
  \/ \E layout \in GoogleLayouts : HostRearrangesButtons(layout)
  \/ DebounceTimerFires
  \/ \E d \in TickSteps : Tick(d)

SpecLayout == Init /\ [][NextLayout]_vars

\* the document with its teardown and its health check
NextHealth ==
  \/ \E hid \in BOOLEAN : HostInsertInput(hid)
  \/ HostNavigate
  \/ UrlCheck
  \/ DebounceTimerFires
  \/ cleanup
  \/ HealthCheck
  \/ \E d \in TickSteps : Tick(d)

SpecHealth == Init /\ [][NextHealth]_vars

\* the interest filter: batches of records around the input
NextFilter ==
  \/ \E batch \in Batches : HostMutates(batch)
  \/ mutationObserverCallback
  \/ DebounceTimerFires
  \/ Tick(URL_CHECK_INTERVAL_MS)

SpecFilter == Init /\ [][NextFilter]_vars

\* the generation cycle of the document, with the engine running
NextGen ==
  \/ HostRemoveInput
  \/ \E b \in DOMAIN buttons : HostRemoveButton(b)
  \/ HostStructuralChange
  \/ DebounceTimerFires
  \/ Tick(URL_CHECK_INTERVAL_MS)
  \/ \E b \in DOMAIN buttons, extracted \in BOOLEAN : Click(b, extracted)
  \/ UserTypes
  \/ \E r \in DOMAIN requests, res \in Results, delivered \in BOOLEAN : BackgroundAnswers(r, res, delivered)
  \/ \E r \in DOMAIN requests : handleAIResponseResult(r)
  \/ \E r \in DOMAIN requests : generateAIReplyCallback(r)

SpecGen == Init /\ [][NextGen]_vars

\* a frame that sends no request while another frame of its tab does
NextTab ==
  \/ \E hid \in BOOLEAN : HostInsertInput(hid)
  \/ HostRemoveInput
  \/ \E b \in DOMAIN buttons : HostRemoveButton(b)
  \/ DebounceTimerFires
  \/ Tick(URL_CHECK_INTERVAL_MS)
  \/ UserTypes
  \/ \E res \in Results : ForeignResult(res)

SpecTab == Init /\ [][NextTab]_vars

\* ------------------------------------------------------------------ claims
InputKeys == {YPqjbf, "textarea-id"}

ControlsOf(k) == {b \in AttachedButtons(buttons) : buttons[b].jsname = k \/ buttons[b].key = k}

\* C1: in every reachable state, for every input key, at most one attached
\* injected control is associated with that key
C1_OneControlPerKey == \A k \in InputKeys : Cardinality(ControlsOf(k)) <= 1

\* a control was re-injected after the host page removed an earlier one
C1_Witness ==
  /\ Len(buttons) >= 2
  /\ Cardinality(ControlsOf(YPqjbf)) = 1
  /\ attachedInput # 0

\* C2: between handlers no pass is executing and the busy flag is false, so
\* a pass is never entered with the flag set; this includes the state after a
\* pass that left through an exception
C2_BusyFlagReset == isInjecting = FALSE

\* a pass entered after the load has just left through an exception
C2_Witness == passThrew /\ ~isInjecting /\ lastInjectionTime > 0

InFlight == {r \in DOMAIN requests : requests[r].res = "none"}

BusyControls(bs) == {b \in AttachedButtons(bs) : bs[b].busy}

\* C4: at most one generation request of the document is outstanding at any
\* time, because a click during a request in flight sends nothing
C4_OneRequestInFlight == Cardinality(InFlight) <= 1

\* C5: once the callback and the result message of every cycle have been
\* handled, no control of the document is left in the busy presentation
C5_ControlReturnsToIdle ==
  (requests # <<>> /\ \A r \in DOMAIN requests : requests[r] = Settled)
    => BusyControls(buttons) = {}

\* C8: handling a result whose text is empty (by the callback or by the
\* result message) leaves the content of every non-empty input unchanged
C8_EmptyResultKeepsContent ==
  [][\A r \in DOMAIN requests :
       (requests[r].res = "empty" /\ requests'[r] # requests[r])
         => \A i \in DOMAIN inputs :
              inputs[i].value # "" => inputs'[i].value = inputs[i].value]_vars

\* the callback of an empty result has run on an input the user typed into
C8_Witness ==
  \E r \in DOMAIN requests :
    /\ requests[r].res = "empty"
    /\ requests[r].cb = "handled"
    /\ inputs[requests[r].target].value = "user"

\* the step is the callback of request r (not its result message)
CallbackStep(r) ==
  /\ requests[r].cb = "pending"
  /\ requests'[r] # requests[r]
  /\ requests[r].msg = "pending" => requests'[r].msg = "pending"

\* C9: handling a result with success = false (by the callback or by the
\* result message) writes to no input and shows the error notice, and the
\* callback leaves no control busy
C9_FailureWritesNothing ==
  [][\A r \in DOMAIN requests :
       (requests[r].res = "error" /\ requests'[r] # requests[r])
         => /\ inputs' = inputs
            /\ notice' = "error"
            /\ CallbackStep(r) => BusyControls(buttons') = {}]_vars

\* the callback of a failed result has run while its input had content
C9_Witness ==
  \E r \in DOMAIN requests :
    /\ requests[r].res = "error"
    /\ requests[r].cb = "handled"
    /\ inputs[requests[r].target].value = "user"
    /\ notice = "error"

\* nothing of the relay is under way: every posted message has been handled
\* and every call of the host page has been answered
RelayQuiet ==
  /\ \A m \in DOMAIN hostInbox : hostInbox[m].st # "posted"
  /\ \A c \in DOMAIN calls : calls[c].out # "sent"
  /\ \A f \in DOMAIN frameInbox : frameInbox[f].st # "posted"

\* C6: when the cycle a click started has ended, whatever its outcome, the
\* generation-in-flight flag is clear
C6_FlagCleared == RelayQuiet => ~isAIGenerationInProgress

CallsFor(m) == {c \in DOMAIN calls : calls[c].msg = m}

\* C7: every GENERATE_AI_RESPONSE call of the host page comes from a message
\* tagged 'iframe_forward', an untagged request ends ignored, and no message
\* (so no click) leads to more than one call
C7_OnlyTaggedRequestsCall ==
  /\ \A c \in DOMAIN calls : hostInbox[calls[c].msg].source = "iframe_forward"
  /\ \A m \in DOMAIN hostInbox :
       /\ Cardinality(CallsFor(m)) <= 1
       /\ hostInbox[m].source # "iframe_forward" => hostInbox[m].st \in {"posted", "ignored"}
  /\ Cardinality({c \in DOMAIN calls : calls[c].msg \in ClickMessages})
       <= Cardinality(ClickMessages)

\* the host page has ignored an untagged request and has called the
\* background for a click in the frame
C7_Witness ==
  /\ \E m \in DOMAIN hostInbox : hostInbox[m].source = "main_page" /\ hostInbox[m].st = "ignored"
  /\ \E m \in ClickMessages : Cardinality(CallsFor(m)) = 1

\* C10: a relayed result of the shape {success: true, aiResponse: non-empty}
\* that the frame has handled was written into the input
C10_RelayedSuccessWritten ==
  \A f \in DOMAIN frameInbox :
    (/\ frameInbox[f].type = "AI_RESPONSE"
     /\ Payload(frameInbox[f].out).success
     /\ Payload(frameInbox[f].out).aiResponse # ""
     /\ frameInbox[f].st # "posted")
      => frameInbox[f].st = "written" /\ frameNotice = "success"

\* ------------------------------------- the same properties, legacy script
\* an element enhanced by the legacy script carries one control
Legacy_OneControlPerElement == aiButtons <= 1

\* the legacy detection flag is false between handlers, also after a
\* detection that threw
Legacy_BusyFlagReset == isProcessingForm = FALSE

\* the legacy error path writes nothing and clears the in-flight flag
Legacy_ErrorWritesNothing ==
  [][\A f \in DOMAIN frameInbox :
       (frameInbox[f].st = "posted" /\ frameInbox'[f].st = "failed")
         => /\ frameValue' = frameValue
            /\ frameNotice' = "error"
            /\ ~isAIGenerationInProgress']_vars

\* ---------------------------------------------------- extraction claims
\* C11: the rating of every review context a request carries is an integer
\* in 1..5, whatever the rating label, the star icons and the text are
C11_RatingInRange ==
  /\ \A i \in DOMAIN reviewData : reviewData[i].review_rating \in 1..5
  /\ \A i \in DOMAIN reviewContext : reviewContext[i].rating \in 1..5

\* C12: the review text of a dispatched generation request is never the
\* empty string; a review without text is sent as the placeholder
C12_NoRawEmptyText ==
  /\ \A i \in DOMAIN reviewData : reviewData[i].review_text # ""
  /\ \A i \in DOMAIN reviewContext : reviewContext[i].reviewText # ""

\* the dynamic script alone: its rating is populated and not below 1, and
\* its text is never empty
Extract_DynamicPopulated ==
  \A i \in DOMAIN reviewData :
    /\ reviewData[i].review_rating >= 1
    /\ reviewData[i].review_text # ""
    /\ Trimmed(page.text) = "" => reviewData[i].review_text = EMPTY_REVIEW

\* ------------------------------------------------- reconciliation claims
\* the relevant notification of this step finds the window over and runs
\* the pass at once
ImmediatePass == mutationObserver /\ now - lastInjectionTime >= INJECTION_DEBOUNCE_MS

\* a step in which cleanupOrphanedButtons runs to its end: at the start of
\* an injection pass, or for a URL change
ReconcileStep ==
  \/ DebounceTimerFires
  \/ UrlCheck
  \/ /\ ImmediatePass
     /\ \/ \E hid \in BOOLEAN : HostInsertInput(hid)
        \/ HostRemoveInput
        \/ HostRemoveContainer
        \/ HostStructuralChange

\* attached controls whose data-associated-jsname resolves to no element
Orphans(bs, d) == {b \in AttachedButtons(bs) : ~ElementWithJsname(bs[b].jsname, d)}

\* attached controls injected more than ten minutes before t
StaleControls(bs, t) == {b \in AttachedButtons(bs) : t - bs[b].ts > STALE_BUTTON_MS}

\* C13: after a reconciliation (pass or URL change) no attached control is
\* left whose input is absent from the document; the host page never named
\* the control in a mutation
C13_ReconciliationPurgesOrphans ==
  [][ReconcileStep => Orphans(buttons', Dom(inputs', attachedInput')) = {}]_vars

\* the input is gone and a control was purged: under SpecRecon only a
\* reconciliation takes a control out of the document
C13_Witness ==
  /\ attachedInput = 0
  /\ AttachedButtons(buttons) = {}
  /\ \E b \in DOMAIN buttons : buttons[b] = Gone

\* C14: after a reconciliation no attached control is left that was
\* injected more than ten minutes ago, whether its input is attached or not
C14_ReconciliationPurgesStale ==
  [][ReconcileStep => StaleControls(buttons', now') = {}]_vars

\* the first input of the document never left it, its control was purged
\* all the same: more than ten minutes have passed
C14_Witness ==
  /\ attachedInput = 1
  /\ now > STALE_BUTTON_MS
  /\ \E b \in DOMAIN buttons : buttons[b] = Gone

\* the pass run on (bs, inj) in the document as it is now
PassOn(bs, inj) == performInjection(bs, inj, Dom(inputs, attachedInput), now, FALSE)

\* C15: the pass run twice in succession on an unchanged document: the
\* second run leaves the tracked set and the attached controls as the first
\* run left them
C15_PassIdempotent ==
  LET first  == PassOn(buttons, injectedButtons)
      second == PassOn(first.buttons, first.injected)
  IN  /\ second.injected = first.injected
      /\ AttachedButtons(second.buttons) = AttachedButtons(first.buttons)
      /\ second.buttons = first.buttons

\* a document in which the first run has work to do: it purges an attached
\* control and injects a fresh one for the attached input
C15_Witness ==
  LET first == PassOn(buttons, injectedButtons)
  IN  /\ attachedInput # 0
      /\ \E b \in AttachedButtons(buttons) : ~first.buttons[b].attached
      /\ \E b \in AttachedButtons(first.buttons) : b \notin DOMAIN buttons

\* a step in which an injection pass runs
PassStep ==
  \/ DebounceTimerFires
  \/ /\ ImmediatePass
     /\ \/ \E hid \in BOOLEAN : HostInsertInput(hid)
        \/ HostRemoveInput
        \/ HostRemoveContainer
        \/ HostStructuralChange

\* C16: an input inserted into a document without control gets a pass (at
\* once, or the timer is armed for it), and the pass that finds the input
\* and no control leaves exactly one control attached
C16_InsertedInputGetsOneControl ==
  /\ [][(\E hid \in BOOLEAN : HostInsertInput(hid))
          => (timerDue' # 0 \/ lastInjectionTime' = now)]_vars
  /\ [][(PassStep /\ attachedInput' # 0 /\ AttachedButtons(buttons) = {})
          => Cardinality(AttachedButtons(buttons')) = 1]_vars

\* ------------------------------------------------------- filter claims
\* a batch in which no record adds or removes a node that is or holds the
\* input, none adds a container and none changes a watched attribute of
\* the input
Uninteresting(batch) ==
  \A i \in DOMAIN batch :
    /\ batch[i].added # "input" /\ batch[i].removed # "input"
    /\ batch[i].added # "form"
    /\ ~(batch[i].type = "attributes" /\ batch[i].target = "input"
         /\ batch[i].attributeName \in WatchedAttributes)

\* C17: such a batch starts no pass and leaves the debounce timer, the
\* last-injection time and the controls as they were
C17_UninterestingBatchIgnored ==
  [][(mutationObserverCallback /\ Uninteresting(records))
       => /\ debounceTimer' = debounceTimer
          /\ timerDue' = timerDue
          /\ lastInjectionTime' = lastInjectionTime
          /\ isInjecting' = isInjecting
          /\ buttons' = buttons
          /\ injectedButtons' = injectedButtons]_vars

\* the user has typed into the input a window or more after the load: the
\* batch of text nodes ran no pass (the last one is the load pass) and
\* armed no timer
C17_Witness ==
  /\ attachedInput # 0
  /\ inputs[attachedInput].value = "user"
  /\ now >= INJECTION_DEBOUNCE_MS
  /\ lastInjectionTime = 0
  /\ timerDue = 0
  /\ debounceTimer = FALSE
  /\ records = <<>>

\* ------------------------------------------------- control removed by the host
\* C18: when the host page removes a control's node while its input stays
\* attached, the control leaves injectedButtons, and the input is not left
\* without a control: a pass that injects a fresh one is pending
C18_RemovedControlReplaced ==
  /\ [][\A b \in DOMAIN buttons : HostRemoveButton(b) => b \notin injectedButtons']_vars
  /\ [][\A b \in DOMAIN buttons :
          (HostRemoveButton(b) /\ attachedInput # 0 /\ AttachedButtons(buttons') = {})
            => timerDue' # 0]_vars

\* ------------------------------------------------------ deferral of the scan
\* C19 as stated: while relevant notifications keep arriving at intervals
\* shorter than the window, no pass executes: the deferred pass runs only
\* when the notifications have stopped for a full window
C19_ChurnDefersScan ==
  [][(DebounceTimerFires /\ notifs >= 2) => now - lastNotif >= INJECTION_DEBOUNCE_MS]_vars

\* C19: the scan is deferred to the end of the window that the last pass
\* opened, whatever notifications arrive meanwhile
C19_DeferredToEndOfWindow ==
  timerDue # 0 => timerDue = lastInjectionTime + INJECTION_DEBOUNCE_MS

\* a burst in which a pass has executed and the next one is deferred again
C19_Witness ==
  /\ timerDue # 0
  /\ notifs >= 2
  /\ passes >= 1
  /\ lastInjectionTime > 0
  /\ now - lastNotif < INJECTION_DEBOUNCE_MS

\* ------------------------------------------------------------- URL change
\* C20: when the location poll finds a new URL, the controls whose input
\* is gone are torn down and the debounce timer is armed, so that a pass
\* follows without any later mutation
C20_UrlChangeArmsTimer ==
  /\ [][UrlCheck => Orphans(buttons', Dom(inputs', attachedInput')) = {}]_vars
  /\ [][UrlCheck => (debounceTimer' /\ timerDue' # 0)]_vars

\* ------------------------------------------------------------- teardown
\* C21: once cleanup has run, the URL poll, the debounce timer and both
\* observers are off and injectedButtons is empty, and no later step of the
\* document runs a pass: no timer or poll callback, no new control, no new
\* pass time
C21_TeardownIsFinal ==
  /\ [](~mutationObserver => /\ ~urlCheckInterval
                             /\ ~debounceTimer
                             /\ timerDue = 0
                             /\ ~buttonObserver
                             /\ injectedButtons = {})
  /\ [][~mutationObserver => /\ ~DebounceTimerFires
                             /\ ~UrlCheck
                             /\ lastInjectionTime' = lastInjectionTime
                             /\ Len(buttons') = Len(buttons)]_vars

\* after the teardown the host inserted an input into a document that
\* never had a control, and the input stays bare
C21_Witness ==
  /\ ~mutationObserver
  /\ attachedInput # 0
  /\ buttons = <<>>
  /\ google = "none"
  /\ timerDue = 0

\* ---------------------------------------------- result without its control
\* C22: a result that arrives when the control that asked for it has left
\* the document (here: no control is attached at all) is discarded: neither
\* the request callback nor the result message writes to an input
C22_ResultWithoutControlDiscarded ==
  [][(/\ AttachedButtons(buttons) = {}
      /\ \E r \in DOMAIN requests : generateAIReplyCallback(r) \/ handleAIResponseResult(r))
       => inputs' = inputs]_vars

\* ------------------------------------------------- relay without a target
\* the host page has the answer to a click's call and found no frame to
\* post it to
Undelivered ==
  /\ iframeSrc = "none"
  /\ \E c \in DOMAIN calls : hostInbox[calls[c].msg].click /\ calls[c].out \notin {"sent", "reject"}

\* C23: when the host page cannot deliver the relayed result, the frame
\* still sees a failure: once nothing is in flight its control is enabled
\* again after an error notice and the in-flight flag is clear
C23_UndeliveredResultFails ==
  (Undelivered /\ RelayQuiet)
    => /\ ~isAIGenerationInProgress
       /\ ~buttonDisabled
       /\ frameNotice = "error"

\* ------------------------------------------------------ cached review context
\* the context of the review on display
DisplayedContext ==
  [reviewerName |-> reviewer,
   rating       |-> extractReviewContext(page).rating,
   reviewText   |-> extractReviewContext(page).reviewText]

\* C24: the detection pass that follows a change of the displayed review
\* leaves no context of the previous review in the cache, and a request
\* dispatched after that pass carries the context of the review on display
C24_PassInvalidatesCache ==
  /\ [][performFormDetectionOnReview
          => (reviewContextCache' = <<>> \/ reviewContextCache' = <<DisplayedContext>>)]_vars
  /\ [][(LegacyGenerateRequest /\ passSinceChange)
          => reviewContext' = <<DisplayedContext>>]_vars

\* ------------------------------------------------------------ neutral default
\* the page shows no rating: no label with a number, no filled star, no
\* star icon
NoRatingInPage ==
  /\ page.ratingLabel.form \in {"absent", "other"}
  /\ page.otherLabel.form \in {"absent", "other"}
  /\ page.filledStars = 0
  /\ page.starIcons = 0

\* the review text is empty or holds no word of the two lists
NoSentiment == ~IncludesPositive(Trimmed(page.text)) /\ ~IncludesNegative(Trimmed(page.text))

\* C25: with no rating in the page and no sentiment word in the text the
\* rating of a request is exactly 3
C25_NeutralDefault ==
  (NoRatingInPage /\ NoSentiment)
    => /\ \A i \in DOMAIN reviewData : reviewData[i].review_rating = 3
       /\ \A i \in DOMAIN reviewContext : reviewContext[i].rating = 3

\* the same for the dynamic script alone
Extract_DynamicNeutralDefault ==
  (NoRatingInPage /\ NoSentiment)
    => \A i \in DOMAIN reviewData : reviewData[i].review_rating = 3

\* ------------------------------------------------------------- handshake
\* C26: a repeated PING is harmless: the surface stays able to detect and
\* enhance a reply form that appears later, that is, every PING handled
\* outside a detection leaves a detection scheduled
C26_PingKeepsDetecting ==
  [][detectAndEnhanceReplyForm => (isProcessingForm \/ processingTimeout')]_vars


\* C27: however many times the host page detects the reply iframe and
\* however the frame script is initialized, each document's window has at
\* most one 'message' listener (exactly one once its flag is set), so a
\* message dispatched in a window runs the handler at most once, and
\* exactly once when the listener is there.
C27_OneMessageListener ==
  /\ [](\A d \in Documents :
          /\ messageListeners[d] <= 1
          /\ messageListenerSetup[d] <=> messageListeners[d] = 1
          /\ lastDispatch[d] <= 1)
  /\ [][(FramePing /\ messageListenerSetup["frame"]) => lastDispatch'["frame"] = 1]_vars
  /\ [][(HostPong /\ messageListenerSetup["host"]) => lastDispatch'["host"] = 1]_vars

\* the iframe was detected twice, and a PING and its PONG were each handled once
C27_Witness ==
  /\ loadListeners = 2
  /\ messageListeners["host"] = 1
  /\ lastDispatch["frame"] = 1
  /\ lastDispatch["host"] = 1


\* C29: the content probe of a frame whose URL does not match makes at most
\* maxRetries (5) checks; the first positive check initializes the
\* enhancement once and schedules no further check; no check runs after an
\* initialization; and once the probe has stopped, after the positive check
\* or after five negative ones, it never checks or initializes again.
C29_ProbeTerminates ==
  /\ [](retryCount <= maxRetries /\ frameInits <= 1)
  /\ [](retryCount = maxRetries => ~retryTimer)
  /\ [][retryFormDetection => frameInits = 0]_vars
  /\ [][(retryFormDetection /\ hasReviewFormElements) => (frameInits' = 1 /\ ~retryTimer')]_vars
  /\ [][(scriptStarted /\ ~retryTimer) =>
          (~retryTimer' /\ retryCount' = retryCount /\ frameInits' = frameInits)]_vars

\* five negative checks, and the form elements arrive afterwards
C29_Witness ==
  /\ ~urlMatches
  /\ retryCount = maxRetries
  /\ ~retryTimer
  /\ frameInits = 0
  /\ hasReviewFormElements


C30_HealthCheckReasserts ==
  [][HealthCheck => (mutationObserver' /\ urlCheckInterval')]_vars


\* ------------------------------------------------------- layered lookup
\* C35: for the attached input, every attached tracked control that was
\* injected for it is what findExistingButtonForTextarea returns, whether
\* the input carries an id or not and wherever the control was placed
C35_LookupFindsControl ==
  \A b \in AttachedButtons(buttons) \cap injectedButtons :
    (attachedInput # 0 /\ buttons[b].target = attachedInput)
      => findExistingButtonForTextarea(buttons, injectedButtons,
                                       Dom(inputs, attachedInput)) = b


\* ------------------------------------------------------ end of a pass
\* C37: at the end of every injection pass the attached input has exactly
\* one attached control; this includes the pass that purges a control for
\* staleness while its input is present
C37_PassLeavesOneControl ==
  [][(PassStep /\ attachedInput' # 0)
       => Cardinality(AttachedButtons(buttons')) = 1]_vars

\* C37 in the layouts in which the control can be inserted (auxiliary)
C37_PassLeavesOneControlWherePlaceable ==
  [][(PassStep /\ attachedInput' # 0 /\ google # "nested")
       => Cardinality(AttachedButtons(buttons')) = 1]_vars


\* ------------------------------------------- the two deliveries of a result
\* C32: of the two deliveries of one request's result (the request callback
\* and the AI_RESPONSE_RESULT message) at most one writes the text to the
\* input: when one has written, the other does not write
C32_ResultHandledOnce ==
  [][\A r \in DOMAIN requests :
       requests[r].wrote =>
         /\ ~(handleAIResponseResult(r) /\ MessageWrites(r))
         /\ ~(generateAIReplyCallback(r) /\ CallbackWrites(r))]_vars

\* C36: handling a successful result whose text is empty shows no error
\* notification
C36_EmptySuccessIsNoError ==
  [][\A r \in DOMAIN requests :
       ((handleAIResponseResult(r) \/ generateAIReplyCallback(r)) /\ requests[r].res = "empty")
         => notice' # "error"]_vars

\* C36 for the request callback alone (auxiliary)
C36_CallbackEmptySuccessIsNoError ==
  [][\A r \in DOMAIN requests :
       (generateAIReplyCallback(r) /\ requests[r].res = "empty") => notice' = notice]_vars


\* ------------------------------------------------ frames of the same tab
\* C33: a frame that initiated no request never has its input written by
\* the result of a request of another frame of its tab
C33_ForeignResultNotApplied ==
  [][(requests = <<>> /\ \E res \in Results : ForeignResult(res)) => inputs' = inputs]_vars


\* ------------------- the controls of the legacy script and their presentation
MaxControls == 2      \* reply elements that get a control
MaxRevertTimers == 2  \* display-revert timers pending at once

\* legacy state other than the generation flag
legacyRest == <<isProcessingForm, lastProcessedFormId, processingTimeout,
                enhancementCount, frameTextarea, frameValue, aiButtons, buttonDisabled,
                frameNotice, detectionThrew, sameOrigin, iframeSrc, hostInbox, calls,
                frameInbox>>

\* document.querySelector('.ai-response-btn'): the first control in document order
firstAIButton(cs) == cs[1].id

\* the control with the given identity takes the given presentation
setPresentation(cs, id, dis, lab) ==
  [c \in DOMAIN cs |-> IF cs[c].id = id
                       THEN [id |-> id, disabled |-> dis, label |-> lab]
                       ELSE cs[c]]

\* enhanceReplyTextarea on one more reply element: createAIResponseButton and
\* insertAIButton, which puts the control first in the shared button container
\* or, in the last fallback, after its own element
insertAIButton(first) ==
  /\ UNCHANGED <<engineVars, legacyVars, extractVars, setupVars, healthChecks,
                 timerVars, panelVars>>
  /\ Len(controls) < MaxControls
  /\ LET new == [id |-> Len(controls) + 1, disabled |-> FALSE, label |-> "idle"]
     IN controls' = IF first THEN <<new>> \o controls ELSE Append(controls, new)
  /\ UNCHANGED <<clickedControl, generationPending, revertTimers>>

\* the click handler of setupAIButtonHandler on the control at position c
aiButtonClick(c) ==
  /\ UNCHANGED <<engineVars, legacyRest, extractVars, setupVars, healthChecks,
                 timerVars, panelVars>>
  /\ c \in DOMAIN controls
  /\ ~(controls[c].disabled \/ isAIGenerationInProgress)
  /\ Len(revertTimers) < MaxRevertTimers
  /\ isAIGenerationInProgress' = TRUE
  /\ controls' = setPresentation(controls, controls[c].id, TRUE, "busy")
  /\ clickedControl' = controls[c].id
  /\ generationPending' = TRUE
  /\ UNCHANGED revertTimers

\* handleAIResponse (success) and handleAIError (error) on the result of the
\* pending generation: both present the result on the first control and arm
\* a timer that reverts the display of that control
handleAIResponseDisplay(status) ==
  /\ UNCHANGED <<engineVars, legacyRest, extractVars, setupVars, healthChecks,
                 timerVars, panelVars>>
  /\ generationPending
  /\ controls' = setPresentation(controls, firstAIButton(controls), FALSE,
                                 IF status = "success" THEN "done" ELSE "error")
  /\ revertTimers' = Append(revertTimers,
                            [kind |-> status, target |-> firstAIButton(controls)])
  /\ isAIGenerationInProgress' = FALSE
  /\ generationPending' = FALSE
  /\ UNCHANGED clickedControl

\* the callback of the 2000 ms timer of handleAIResponse restores the label
\* and removes the disabled attribute; the one of the 3000 ms timer of
\* handleAIError restores the label
revertTimerFires(t) ==
  /\ UNCHANGED <<engineVars, legacyVars, extractVars, setupVars, healthChecks,
                 timerVars, panelVars>>
  /\ t \in DOMAIN revertTimers
  /\ controls' = [c \in DOMAIN controls |->
                    IF controls[c].id = revertTimers[t].target
                    THEN [id |-> controls[c].id,
                          disabled |-> IF revertTimers[t].kind = "success"
                                       THEN FALSE ELSE controls[c].disabled,
                          label |-> "idle"]
                    ELSE controls[c]]
  /\ revertTimers' = [i \in 1..(Len(revertTimers) - 1) |->
                        IF i < t THEN revertTimers[i] ELSE revertTimers[i + 1]]
  /\ UNCHANGED <<clickedControl, generationPending>>

NextControls ==
  \/ \E first \in BOOLEAN : insertAIButton(first)
  \/ \E c \in 1..MaxControls : aiButtonClick(c)
  \/ \E status \in {"success", "error"} : handleAIResponseDisplay(status)
  \/ \E t \in 1..MaxRevertTimers : revertTimerFires(t)

\* the frame script runs in a same-origin reply frame that shows the form
InitControls ==
  /\ InitLegacy
  /\ frameTextarea = "plain"
  /\ sameOrigin = TRUE
  /\ iframeSrc = "reply"

SpecControls == InitControls /\ [][NextControls]_vars

\* C34: when the result of a generation is presented, no control other than
\* the one that was clicked changes its disabled state or its label
C34_PresentationOnClickedControl ==
  [][(\E status \in {"success", "error"} : handleAIResponseDisplay(status))
       => \A c \in DOMAIN controls :
            controls[c].id # clickedControl => controls'[c] = controls[c]]_vars

\* C39: while a generation is pending, the clicked control is disabled and
\* carries the busy label
C39_BusyUntilHandled ==
  generationPending =>
    \A c \in DOMAIN controls :
      controls[c].id = clickedControl
        => controls[c].disabled /\ controls[c].label = "busy"


\* ------------------------------------------------- universal side panel
MaxPanelClicks == 5   \* clicks on Generate that are followed

\* handleGenerate: the click listener of #br-generate; hasText is whether the
\* review field holds text after trimming
handleGenerate(hasText) ==
  /\ UNCHANGED <<engineVars, legacyVars, extractVars, setupVars, healthChecks,
                 timerVars, controlVars>>
  /\ ~isLoading
  /\ panelClicks < MaxPanelClicks
  /\ panelClicks' = panelClicks + 1
  /\ IF hasText
     THEN /\ panelError' = FALSE
          /\ authChecks' = authChecks + 1
     ELSE /\ panelError' = TRUE
          /\ authChecks' = authChecks
  /\ UNCHANGED <<isLoading, generateRequests>>

\* the callback of the GET_AUTH_STATUS request: setLoadingState(true) and the
\* GENERATE_AI_RESPONSE request when the user is authenticated
authStatusCallback(isAuthenticated) ==
  /\ UNCHANGED <<engineVars, legacyVars, extractVars, setupVars, healthChecks,
                 timerVars, controlVars>>
  /\ authChecks > 0
  /\ authChecks' = authChecks - 1
  /\ IF isAuthenticated
     THEN /\ isLoading' = TRUE
          /\ generateRequests' = generateRequests + 1
          /\ panelError' = panelError
     ELSE /\ panelError' = TRUE
          /\ UNCHANGED <<isLoading, generateRequests>>
  /\ UNCHANGED panelClicks

\* the callback of the GENERATE_AI_RESPONSE request: setLoadingState(false),
\* then showResult or showError
generateResponseCallback(ok) ==
  /\ UNCHANGED <<engineVars, legacyVars, extractVars, setupVars, healthChecks,
                 timerVars, controlVars>>
  /\ generateRequests > 0
  /\ generateRequests' = generateRequests - 1
  /\ isLoading' = FALSE
  /\ panelError' = IF ok THEN panelError ELSE TRUE
  /\ UNCHANGED <<authChecks, panelClicks>>

NextPanel ==
  \/ \E hasText \in BOOLEAN : handleGenerate(hasText)
  \/ \E isAuthenticated \in BOOLEAN : authStatusCallback(isAuthenticated)
  \/ \E ok \in BOOLEAN : generateResponseCallback(ok)

SpecPanel == Init /\ [][NextPanel]_vars

\* C38: at most one GENERATE_AI_RESPONSE request of the side panel is in
\* flight at a time
C38_OneRequestInFlight == generateRequests <= 1


\* ------------------------------- the timers of the two debouncers as a table
MaxTimers == 4        \* timers the two debouncers ever arm

\* clearTimeout(h): a pending timer is cancelled, any other handle is ignored
clearTimeout(tt, h) ==
  IF h # 0 /\ tt[h].state = "pending" THEN [tt EXCEPT ![h].state = "cancelled"] ELSE tt

\* window.setTimeout(callback, delay) of the given debouncer
setTimeout(tt, o) == Append(tt, [owner |-> o, state |-> "pending", runs |-> 0])

PendingTimers(tt, o) ==
  {t \in DOMAIN tt : tt[t].owner = o /\ tt[t].state = "pending"}

\* variant: the pending timer is not cleared before the next one is armed
debouncedInjectAIButtonsTimer_noClear(withinWindow) ==
  /\ UNCHANGED <<engineVars, legacyVars, extractVars, setupVars, healthChecks,
                 controlVars, panelVars>>
  /\ IF withinWindow
     THEN /\ Len(timerTable) < MaxTimers
          /\ timerTable' = setTimeout(timerTable, "debounce")
          /\ debounceHandle' = Len(timerTable) + 1
     ELSE /\ timerTable' = timerTable
          /\ debounceHandle' = debounceHandle
  /\ UNCHANGED processingHandle

\* debouncedInjectAIButtons: the pending timer is cleared; within the debounce
\* window a timer for the remaining time is armed, outside of it the pass
\* runs at once
debouncedInjectAIButtonsTimer(withinWindow) ==
  /\ UNCHANGED <<engineVars, legacyVars, extractVars, setupVars, healthChecks,
                 controlVars, panelVars>>
  /\ LET cleared == clearTimeout(timerTable, debounceHandle)
     IN IF withinWindow
        THEN /\ Len(timerTable) < MaxTimers
             /\ timerTable' = setTimeout(cleared, "debounce")
             /\ debounceHandle' = Len(timerTable) + 1
        ELSE /\ timerTable' = cleared
             /\ debounceHandle' = 0
  /\ UNCHANGED processingHandle

\* the callback of the debounce timer: performInjection(); debounceTimer = null
debounceTimerCallback(t) ==
  /\ UNCHANGED <<engineVars, legacyVars, extractVars, setupVars, healthChecks,
                 controlVars, panelVars>>
  /\ t \in PendingTimers(timerTable, "debounce")
  /\ timerTable' = [timerTable EXCEPT ![t].state = "fired", ![t].runs = @ + 1]
  /\ debounceHandle' = 0
  /\ UNCHANGED processingHandle

\* cleanup: clearTimeout(debounceTimer); debounceTimer = null
cleanupDebounceTimer ==
  /\ UNCHANGED <<engineVars, legacyVars, extractVars, setupVars, healthChecks,
                 controlVars, panelVars>>
  /\ debounceHandle # 0
  /\ timerTable' = clearTimeout(timerTable, debounceHandle)
  /\ debounceHandle' = 0
  /\ UNCHANGED processingHandle

\* detectAndEnhanceReplyForm up to MAX_ENHANCEMENTS: the pending timer is
\* cleared and the 200 ms timer of performFormDetection is armed
detectAndEnhanceReplyFormTimer ==
  /\ UNCHANGED <<engineVars, extractVars, setupVars, healthChecks,
                 controlVars, panelVars>>
  /\ ~isProcessingForm
  /\ enhancementCount < MAX_ENHANCEMENTS
  /\ Len(timerTable) < MaxTimers
  /\ enhancementCount' = enhancementCount + 1
  /\ timerTable' = setTimeout(clearTimeout(timerTable, processingHandle), "processing")
  /\ processingHandle' = Len(timerTable) + 1
  /\ UNCHANGED <<isProcessingForm, lastProcessedFormId, processingTimeout,
                 isAIGenerationInProgress, frameTextarea, frameValue, aiButtons,
                 buttonDisabled, frameNotice, detectionThrew, sameOrigin, iframeSrc,
                 hostInbox, calls, frameInbox, debounceHandle>>

\* the callback of the 200 ms timer: performFormDetection(); the handle is kept
processingTimeoutCallback(t) ==
  /\ UNCHANGED <<engineVars, legacyVars, extractVars, setupVars, healthChecks,
                 controlVars, panelVars>>
  /\ t \in PendingTimers(timerTable, "processing")
  /\ timerTable' = [timerTable EXCEPT ![t].state = "fired", ![t].runs = @ + 1]
  /\ UNCHANGED <<debounceHandle, processingHandle>>

NextTimers ==
  \/ \E withinWindow \in BOOLEAN : debouncedInjectAIButtonsTimer(withinWindow)
  \/ \E t \in 1..MaxTimers : debounceTimerCallback(t)
  \/ cleanupDebounceTimer
  \/ detectAndEnhanceReplyFormTimer
  \/ \E t \in 1..MaxTimers : processingTimeoutCallback(t)

SpecTimers == InitControls /\ [][NextTimers]_vars

\* C31: each debouncer has at most one timer pending, the one its handle
\* refers to, and no timer runs its pass more than once or after its cancellation
C31_OneTimerPending ==
  /\ PendingTimers(timerTable, "debounce") \subseteq {debounceHandle}
  /\ PendingTimers(timerTable, "processing") \subseteq {processingHandle}
  /\ \A t \in DOMAIN timerTable :
       /\ timerTable[t].runs <= 1
       /\ timerTable[t].state = "cancelled" => timerTable[t].runs = 0
       /\ timerTable[t].state = "fired" => timerTable[t].runs = 1

\* a timer was cancelled by the arming of the next one, which has run its pass,
\* and a third one is pending
C31_Witness ==
  \E a, b, c \in DOMAIN timerTable :
    /\ a < b /\ b < c
    /\ timerTable[a].owner = "debounce" /\ timerTable[a].state = "cancelled"
    /\ timerTable[b].owner = "debounce" /\ timerTable[b].state = "fired"
    /\ timerTable[c].owner = "debounce" /\ timerTable[c].state = "pending"
    /\ debounceHandle = c

====
